---- MODULE Spec2Model ----
(***************************************************************************)
(* Model of the talks-indexer reindexing engine (internal/app              *)
(* IndexerService) together with the two gateways it drives: the talk      *)
(* source (moresleep) and the search index (Elasticsearch client).         *)
(*                                                                         *)
(* Every gateway call is one atomic step of the calling operation; the     *)
(* outcome of a call (success or error) is chosen nondeterministically.    *)
(***************************************************************************)
EXTENDS Integers, Sequences, FiniteSets, TLC

VARIABLES
    confList,   \* upstream: the conference list the source returns
    source,     \* upstream: per talk id, its current status and privateData
    idx,        \* search engine: per index name, existence, mapping, documents
    ps,         \* per process: the running operation's locals and position
    opsStarted, \* number of operations started so far
    changes,    \* number of upstream changes so far
    covered,    \* history: per talk id, status at the last successful covering operation
    pubWrites,  \* history: (source talk, document) of every public-index write
    prev,       \* history: the invocation before the current one, if it succeeded cleanly
    responses,  \* history: the responses the API handlers have written, with their cause
    pure,       \* a call of a pure function: its input and, once made, its result
    server,     \* the HTTP server: configuration, route table, last request served
    cache,      \* the web handler's conference cache: lock, stored list, callers
    auth        \* session store, clock and the requests passing RequireAuth

vars == <<confList, source, idx, ps, opsStarted, changes, covered, pubWrites, prev, responses, pure, server, cache, auth>>

----------------------------------------------------------------------------
\* Bounds of the model

MaxOps == 2
MaxChanges == 1
MaxLen == 3

----------------------------------------------------------------------------
\* Configuration of the service

PrivateIndex == "javazone_private"
PublicIndex == "javazone_public"
IndexNames == {PrivateIndex, PublicIndex}

TalkPrivateIndexMapping == "TalkPrivateIndexMapping"
TalkPublicIndexMapping == "TalkPublicIndexMapping"
DynamicMapping == "dynamic"
NoMapping == ""

----------------------------------------------------------------------------
\* Upstream universe

Procs == {"p1", "p2"}

ConfIds == {"c1", "c2"}
Conference(c) == [id |-> c, slug |-> IF c = "c1" THEN "javazone2024" ELSE "javazone2025"]
ConfLists == { <<>>, <<Conference("c1")>>, <<Conference("c1"), Conference("c2")>>,
               <<Conference("c2"), Conference("c1")>> }
Slugs == {"javazone2024", "javazone2025", "JavaZone2024"}

TalkOrder == <<"t1", "t2", "t3">>
TalkIds == {"t1", "t2", "t3"}
RequestIds == TalkIds \cup {"unknown"}
ConfOf(t) == IF t = "t3" THEN "c2" ELSE "c1"

Statuses == {"APPROVED", "SUBMITTED"}

EmptyMap == [k \in {} |-> ""]
\* data of each talk (public-safe content)
DataOf(t) ==
    IF t = "t1" THEN [title |-> "Talk 1"]
    ELSE IF t = "t2" THEN [title |-> "Talk 2", postedBy |-> "anonymous"]
    ELSE EmptyMap
\* privateData of each talk (administration-only content) ...
InitialPrivateData(t) ==
    IF t = "t1" THEN [postedBy |-> "alice@example.com"]
    ELSE IF t = "t2" THEN [postedBy |-> "carol@example.com"]
    ELSE EmptyMap
\* ... and the value an upstream edit gives it
EditedPrivateData(t) ==
    IF t = "t1" THEN [postedBy |-> "bob@example.com"]
    ELSE IF t = "t2" THEN EmptyMap
    ELSE [feedback |-> "weak"]
PrivateDataOf(t) == {InitialPrivateData(t), EditedPrivateData(t)}

TalkOf(t) ==
    [id |-> t, conferenceID |-> ConfOf(t), status |-> source[t].status,
     data |-> DataOf(t), privateData |-> source[t].privateData]

----------------------------------------------------------------------------
\* Domain model (internal/domain): projections and the visibility rule

\* data overlaid with privateData, privateData winning on key collision
Merge(data, privateData) ==
    [k \in (DOMAIN data) \cup (DOMAIN privateData) |->
        IF k \in DOMAIN privateData THEN privateData[k] ELSE data[k]]

\* Talk.ToPrivate: privateData merged into data, privateData cleared
ToPrivate(t) == [t EXCEPT !.data = Merge(t.data, t.privateData), !.privateData = EmptyMap]

\* Talk.ToPublic: the talk's data with privateData omitted entirely
ToPublic(t) == [t EXCEPT !.privateData = EmptyMap]

\* TalkStatus.IsPublic: strict equality with the approved status
IsPublic(status) == status = "APPROVED"

----------------------------------------------------------------------------
\* Go slices: a nil slice and an empty non-nil slice are different values

NilSlice == [isNil |-> TRUE, elems |-> <<>>]
MakeSlice == [isNil |-> FALSE, elems |-> <<>>]
GoAppend(s, x) == [isNil |-> FALSE, elems |-> Append(s.elems, x)]

\* faulty variant: ToPrivate merges privateData into the map its receiver shares
\* with the source talk
SourceAfterToPrivate_Merged(t) == [t EXCEPT !.data = Merge(t.data, t.privateData)]

\* Talk.ToPrivate, seen from the talk it was called on: the projection is a new
\* value, the source talk keeps its data and its privateData
SourceAfterToPrivate(t) == t

\* the operation's talks once the private projections have been produced
AfterPrivate(r) == [r EXCEPT !.talks = [k \in 1..Len(@) |-> SourceAfterToPrivate(@[k])]]

\* faulty variant: the talks are passed on as fetched
prepareTalksForPrivateIndex_Raw(talks) == talks

\* prepareTalksForPrivateIndex: result[i] = talks[i].ToPrivate()
prepareTalksForPrivateIndex(talks) == [i \in 1..Len(talks) |-> ToPrivate(talks[i])]

RECURSIVE filterLoop(_, _, _)
\* faulty variant: the loop appends the private projection
RECURSIVE filterLoop_Private(_, _, _)
filterLoop_Private(talks, i, approved) ==
    IF i > Len(talks) THEN approved
    ELSE filterLoop_Private(talks, i + 1,
            IF IsPublic(talks[i].status)
            THEN GoAppend(approved, ToPrivate(talks[i]))
            ELSE approved)

filterLoop(talks, i, approved) ==
    IF i > Len(talks) THEN approved
    ELSE filterLoop(talks, i + 1,
            IF IsPublic(talks[i].status)
            THEN GoAppend(approved, ToPublic(talks[i]))
            ELSE approved)

\* filterApprovedTalksForPublic: approved := make([]Talk, 0); append the public
\* projection of every talk whose status is public, in input order
filterApprovedTalksForPublic(talks) == filterLoop(talks, 1, MakeSlice)

----------------------------------------------------------------------------
\* Talk source gateway (moresleep client): what a successful fetch returns

RECURSIVE TalksIn(_, _)
TalksIn(conferenceID, order) ==
    IF order = <<>> THEN <<>>
    ELSE (IF ConfOf(Head(order)) = conferenceID THEN <<TalkOf(Head(order))>> ELSE <<>>)
         \o TalksIn(conferenceID, Tail(order))

\* Client.GetTalk: the source answers 200 for a talk it has and 404 for one it
\* does not have; any status but 200, and any transport failure, is an error
GetTalk(talkID) ==
    {[ok |-> FALSE, status |-> "500", err |-> "unexpected status code"]}
    \cup (IF talkID \in TalkIds
          THEN {[ok |-> TRUE, status |-> "200", err |-> ""]}
          ELSE {[ok |-> FALSE, status |-> "404", err |-> "unexpected status code"]})

SourceGetTalks(conferenceID) == TalksIn(conferenceID, TalkOrder)

----------------------------------------------------------------------------
\* Search gateway (Elasticsearch client) and the engine behind it

NoIndex == [exists |-> FALSE, mapping |-> NoMapping, docs |-> {}]

\* the id the engine generates for the n-th document indexed without an id
AutoId(n) == <<"auto1", "auto2", "auto3", "auto4", "auto5", "auto6", "auto7">>[n]

\* faulty variant: the index action carries no _id, the engine stores every
\* document under a generated id
Upsert_AutoId(docs, d) == docs \cup {[d EXCEPT !.id = AutoId(Cardinality(docs) + 1)]}

\* index one document by its id: an existing document with that id is replaced
Upsert(docs, d) == {x \in docs : x.id # d.id} \cup {d}

RECURSIVE UpsertAll(_, _)
\* faulty variant: the batch replaces the documents of the index
UpsertAll_Replace(docs, batch) == {batch[k] : k \in 1..Len(batch)}

UpsertAll(docs, batch) ==
    IF batch = <<>> THEN docs ELSE UpsertAll(Upsert(docs, Head(batch)), Tail(batch))

\* the documents of batch at the positions in J, in batch order
RECURSIVE Pick(_, _, _)
Pick(batch, J, i) ==
    IF i > Len(batch) THEN <<>>
    ELSE (IF i \in J THEN <<batch[i]>> ELSE <<>>) \o Pick(batch, J, i + 1)

\* the engine applies documents to an index; a missing index is created on the
\* fly with a dynamic mapping
EngineIndex(ix, indexName, batch) ==
    IF batch = <<>> THEN ix
    ELSE [ix EXCEPT ![indexName] =
            [exists |-> TRUE,
             mapping |-> IF ix[indexName].exists THEN ix[indexName].mapping ELSE DynamicMapping,
             docs |-> UpsertAll(ix[indexName].docs, batch)]]

\* the engine's answers to a bulk request: every document indexed; the request
\* refused as a whole (or lost in transport); or status 200 with errors=true
\* after the documents at some positions J, not all, were indexed
EngineBulk(ix, indexName, talks) ==
    {[idx |-> EngineIndex(ix, indexName, talks), status |-> "200", errors |-> FALSE]}
    \cup {[idx |-> ix, status |-> "500", errors |-> FALSE]}
    \cup {[idx |-> EngineIndex(ix, indexName, Pick(talks, J, 1)), status |-> "200",
           errors |-> TRUE] : J \in (SUBSET (1..Len(talks))) \ {1..Len(talks)}}

\* faulty variant: the errors flag of the bulk response is not looked at
BulkResult_IgnoreErrors(res) ==
    [idx |-> res.idx, status |-> res.status, errors |-> res.errors,
     ok |-> res.status = "200",
     err |-> IF res.status # "200" THEN "bulk index error" ELSE ""]

\* what the client makes of the answer: an error status is an error, and so is
\* a response whose errors flag is set; nil otherwise
BulkResult(res) ==
    [idx |-> res.idx, status |-> res.status, errors |-> res.errors,
     ok |-> res.status = "200" /\ ~res.errors,
     err |-> IF res.status # "200" THEN "bulk index error"
             ELSE IF res.errors THEN "bulk index had errors" ELSE ""]

\* Client.BulkIndex: an empty list returns nil without a request; otherwise the
\* request either succeeds for all documents, fails as a whole (transport or
\* HTTP error), or is answered with errors=true after the engine indexed some of
\* the documents
BulkIndex(ix, indexName, talks) ==
    IF Len(talks) = 0
    THEN {[idx |-> ix, ok |-> TRUE, status |-> "", err |-> "", errors |-> FALSE]}
    ELSE {BulkResult(res) : res \in EngineBulk(ix, indexName, talks)}

\* faulty variant: a 404 answer is reported as an error like any other error status
DeleteIndex_NotFoundIsError(ix, indexName) ==
    {[idx |-> ix, ok |-> FALSE, status |-> "500", err |-> "delete index error"]}
    \cup (IF ix[indexName].exists
          THEN {[idx |-> [ix EXCEPT ![indexName] = NoIndex], ok |-> TRUE, status |-> "200",
                 err |-> ""]}
          ELSE {[idx |-> ix, ok |-> FALSE, status |-> "404", err |-> "delete index error"]})

\* Client.DeleteIndex: the engine answers 200 after deleting, 404 when the index
\* is absent; the client takes both for success and anything else for an error
DeleteIndex(ix, indexName) ==
    {[idx |-> ix, ok |-> FALSE, status |-> "500", err |-> "delete index error"]}
    \cup (IF ix[indexName].exists
          THEN {[idx |-> [ix EXCEPT ![indexName] = NoIndex], ok |-> TRUE, status |-> "200",
                 err |-> ""]}
          ELSE {[idx |-> ix, ok |-> TRUE, status |-> "404", err |-> ""]})

\* Client.CreateIndex: any error status is an error; the engine answers 400 for
\* an index that exists already
CreateIndex(ix, indexName, mapping) ==
    {[idx |-> ix, ok |-> FALSE, status |-> "500", err |-> "create index error"]}
    \cup (IF ix[indexName].exists
          THEN {[idx |-> ix, ok |-> FALSE, status |-> "400", err |-> "create index error"]}
          ELSE {[idx |-> [ix EXCEPT ![indexName] =
                            [exists |-> TRUE, mapping |-> mapping, docs |-> {}]],
                 ok |-> TRUE, status |-> "200", err |-> ""]})

\* Client.IndexExists: 200 = exists, 404 = does not exist, anything else an error
IndexExists(ix, indexName) ==
    {[exists |-> FALSE, ok |-> FALSE, status |-> "500", err |-> "index exists check error"]}
    \cup (IF ix[indexName].exists
          THEN {[exists |-> TRUE, ok |-> TRUE, status |-> "200", err |-> ""]}
          ELSE {[exists |-> FALSE, ok |-> TRUE, status |-> "404", err |-> ""]})

----------------------------------------------------------------------------
\* IndexerService: process state and helpers

E(msg, arg) == [msg |-> msg, arg |-> arg]

\* one gateway call of the running operation: the function, its argument (index
\* name, conference id or talk id), the mapping or batch passed, the HTTP status
\* the search engine answered and whether the call returned nil
Call(fn, arg, mapping, batch, status, ok) ==
    [fn |-> fn, arg |-> arg, mapping |-> mapping, batch |-> batch, status |-> status, ok |-> ok]

IdleProc ==
    [op |-> "none", arg |-> "", pc |-> "idle", indexName |-> "", conferences |-> <<>>,
     i |-> 0, talks |-> <<>>, exists |-> FALSE, calls |-> <<>>, ok |-> FALSE,
     err |-> <<>>, pre |-> [n \in IndexNames |-> NoIndex],
     cancelled |-> FALSE, cancelledAt |-> 0]

Running(p) == ps[p].pc \notin {"idle", "returned"}

\* the operation returns nil
ReturnOk(r) == [r EXCEPT !.pc = "returned", !.ok = TRUE, !.err = <<>>]
\* the operation returns the error chain err
ReturnErr(r, err) == [r EXCEPT !.pc = "returned", !.ok = FALSE, !.err = err]

Logged(r, c) == [r EXCEPT !.calls = Append(@, c)]

\* faulty variant: the public mapping is returned for every index name
getMappingForIndex_AlwaysPublic(indexName) == TalkPublicIndexMapping

\* getMappingForIndex
getMappingForIndex(indexName) ==
    IF indexName = PrivateIndex THEN TalkPrivateIndexMapping ELSE TalkPublicIndexMapping

\* the context ReindexAll wraps a recreateIndex error with
RecreateMsg(indexName) ==
    IF indexName = PrivateIndex THEN "failed to recreate private index"
    ELSE "failed to recreate public index"

\* the context the scoped operations wrap an ensureIndexExists error with
EnsureMsg(indexName) ==
    IF indexName = PrivateIndex THEN "failed to ensure private index exists"
    ELSE "failed to ensure public index exists"

\* the source talk a document of a batch was projected from
RECURSIVE SrcOf(_, _)
SrcOf(talks, d) ==
    IF Head(talks).id = d.id THEN Head(talks) ELSE SrcOf(Tail(talks), d)

\* history of a write: each document sent, with the source talk it was made from
Written(talks, batch) == {[src |-> SrcOf(talks, batch[k]), doc |-> batch[k]] : k \in 1..Len(batch)}

\* history: the talks of a successfully completed operation are covered by it
Cover(talks) ==
    [t \in TalkIds |->
        IF \E k \in 1..Len(talks) : talks[k].id = t
        THEN (CHOOSE x \in {talks[k] : k \in 1..Len(talks)} : x.id = t).status
        ELSE covered[t]]

\* every gateway call of the invocation returned nil
NoGatewayFailure(r) == \A k \in 1..Len(r.calls) : r.calls[k].ok

\* history: what is remembered of an invocation once the next one starts: the
\* operation and its argument if it returned nil without any gateway failure
Summary(r) ==
    IF r.pc = "returned" /\ r.ok /\ NoGatewayFailure(r)
    THEN [op |-> r.op, arg |-> r.arg]
    ELSE [op |-> "none", arg |-> ""]

\* the caller's context: once it is cancelled a fetch from the source fails ...
Fetch(p, outcomes) == IF ps[p].cancelled THEN {FALSE} ELSE outcomes

\* ... and so does a request to the search engine, which is not carried out; a
\* gateway call that sends no request (status "") is not affected
Request(p, outcomes) ==
    IF ps[p].cancelled
    THEN {o \in outcomes : o.status = "" \/ (~o.ok /\ o.status = "500")}
    ELSE outcomes

Frame == UNCHANGED <<confList, source, opsStarted, changes, prev, responses, pure, server, cache, auth>>

----------------------------------------------------------------------------
\* Starting an operation (the transport layer calls one of the three entry points)

Start(p, op, arg, pc) ==
    /\ ~Running(p)
    /\ opsStarted < MaxOps
    /\ opsStarted' = opsStarted + 1
    /\ ps' = [ps EXCEPT ![p] = [IdleProc EXCEPT !.op = op, !.arg = arg, !.pc = pc, !.pre = idx]]
    /\ prev' = Summary(ps[p])
    /\ UNCHANGED <<confList, source, idx, changes, covered, pubWrites, responses, pure, server, cache, auth>>

StartReindexAll(p) == Start(p, "ReindexAll", "", "GetConferences")
StartReindexConference(p) == \E slug \in Slugs : Start(p, "ReindexConference", slug, "GetConferences")
StartReindexTalk(p) == \E talkID \in RequestIds : Start(p, "ReindexTalk", talkID, "GetTalk")

----------------------------------------------------------------------------
\* ReindexAll

\* faulty variant: an empty aggregate is reported as an error
AfterFetchLoop_EmptyIsError(r) ==
    IF Len(r.talks) = 0 THEN ReturnErr(r, <<E("no talks fetched", "")>>)
    ELSE [r EXCEPT !.pc = "BulkPrivate"]

\* faulty variant: the empty aggregate is not checked for
AfterFetchLoop_NoCheck(r) == [r EXCEPT !.pc = "BulkPrivate"]

\* after the fetch loop: an empty aggregate is a successful no-op
AfterFetchLoop(r) ==
    IF Len(r.talks) = 0 THEN ReturnOk(r) ELSE [r EXCEPT !.pc = "BulkPrivate"]

\* one iteration of the fetch loop is due, or the loop is over
FetchLoop(r) ==
    IF r.i > Len(r.conferences) THEN AfterFetchLoop(r) ELSE [r EXCEPT !.pc = "GetTalks"]

\* faulty variant: the indexes are rebuilt although the conference list could not be fetched
ReindexAll_GetConferences_NoCheck(p) ==
    /\ ps[p].op = "ReindexAll" /\ ps[p].pc = "GetConferences"
    /\ \E ok \in Fetch(p, BOOLEAN) :
        LET r == Logged(ps[p], Call("GetConferences", "", "", <<>>, "", ok)) IN
        ps' = [ps EXCEPT ![p] =
                [r EXCEPT !.conferences = IF ok THEN confList ELSE <<>>,
                          !.pc = "recreate.Delete", !.indexName = PrivateIndex]]
    /\ UNCHANGED <<idx, covered, pubWrites>>
    /\ Frame

ReindexAll_GetConferences(p) ==
    /\ ps[p].op = "ReindexAll" /\ ps[p].pc = "GetConferences"
    /\ \E ok \in Fetch(p, BOOLEAN) :
        LET r == Logged(ps[p], Call("GetConferences", "", "", <<>>, "", ok)) IN
        ps' = [ps EXCEPT ![p] =
                IF ok
                THEN [r EXCEPT !.conferences = confList, !.pc = "recreate.Delete",
                               !.indexName = PrivateIndex]
                ELSE ReturnErr(r, <<E("failed to fetch conferences", ""), E("source error", "")>>)]
    /\ UNCHANGED <<idx, covered, pubWrites>>
    /\ Frame

\* faulty variant: an index that exists is kept as it is, and only an absent
\* one is created
recreateIndex_Delete_KeepExisting(p) ==
    /\ ps[p].op = "ReindexAll" /\ ps[p].pc = "recreate.Delete"
    /\ \E o \in Request(p, IndexExists(idx, ps[p].indexName)) :
        LET r == Logged(ps[p], Call("IndexExists", ps[p].indexName, "", <<>>, o.status, o.ok)) IN
        /\ idx' = idx
        /\ ps' = [ps EXCEPT ![p] =
                IF ~o.ok
                THEN ReturnErr(r, <<E(RecreateMsg(r.indexName), ""),
                                    E("failed to delete index", r.indexName),
                                    E(o.err, "")>>)
                ELSE IF ~o.exists
                THEN [r EXCEPT !.pc = "recreate.Create"]
                ELSE IF r.indexName = PrivateIndex
                THEN [r EXCEPT !.pc = "recreate.Delete", !.indexName = PublicIndex]
                ELSE FetchLoop([r EXCEPT !.i = 1, !.talks = <<>>])]
    /\ UNCHANGED <<covered, pubWrites>>
    /\ Frame

\* recreateIndex, first call: DeleteIndex
recreateIndex_Delete(p) ==
    /\ ps[p].op = "ReindexAll" /\ ps[p].pc = "recreate.Delete"
    /\ \E o \in Request(p, DeleteIndex(idx, ps[p].indexName)) :
        LET r == Logged(ps[p], Call("DeleteIndex", ps[p].indexName, "", <<>>, o.status, o.ok)) IN
        /\ idx' = o.idx
        /\ ps' = [ps EXCEPT ![p] =
                IF o.ok
                THEN [r EXCEPT !.pc = "recreate.Create"]
                ELSE ReturnErr(r, <<E(RecreateMsg(r.indexName), ""),
                                    E("failed to delete index", r.indexName),
                                    E(o.err, "")>>)]
    /\ UNCHANGED <<covered, pubWrites>>
    /\ Frame

\* faulty variant: an error of CreateIndex is not returned
recreateIndex_Create_IgnoreErr(p) ==
    /\ ps[p].op = "ReindexAll" /\ ps[p].pc = "recreate.Create"
    /\ LET mapping == getMappingForIndex(ps[p].indexName) IN
       \E o \in Request(p, CreateIndex(idx, ps[p].indexName, mapping)) :
        LET r == Logged(ps[p], Call("CreateIndex", ps[p].indexName, mapping, <<>>, o.status, o.ok)) IN
        /\ idx' = o.idx
        /\ ps' = [ps EXCEPT ![p] =
                IF r.indexName = PrivateIndex
                THEN [r EXCEPT !.pc = "recreate.Delete", !.indexName = PublicIndex]
                ELSE FetchLoop([r EXCEPT !.i = 1, !.talks = <<>>])]
    /\ UNCHANGED <<covered, pubWrites>>
    /\ Frame

\* recreateIndex, second call: CreateIndex with the mapping of the index
recreateIndex_Create(p) ==
    /\ ps[p].op = "ReindexAll" /\ ps[p].pc = "recreate.Create"
    /\ LET mapping == getMappingForIndex(ps[p].indexName) IN
       \E o \in Request(p, CreateIndex(idx, ps[p].indexName, mapping)) :
        LET r == Logged(ps[p], Call("CreateIndex", ps[p].indexName, mapping, <<>>, o.status, o.ok)) IN
        /\ idx' = o.idx
        /\ ps' = [ps EXCEPT ![p] =
                IF ~o.ok
                THEN ReturnErr(r, <<E(RecreateMsg(r.indexName), ""),
                                    E("failed to create index", r.indexName),
                                    E(o.err, "")>>)
                ELSE IF r.indexName = PrivateIndex
                THEN [r EXCEPT !.pc = "recreate.Delete", !.indexName = PublicIndex]
                ELSE FetchLoop([r EXCEPT !.i = 1, !.talks = <<>>])]
    /\ UNCHANGED <<covered, pubWrites>>
    /\ Frame

\* faulty variant: a failed per-conference fetch aborts the operation
ReindexAll_GetTalks_Fatal(p) ==
    /\ ps[p].op = "ReindexAll" /\ ps[p].pc = "GetTalks"
    /\ \E ok \in Fetch(p, BOOLEAN) :
        LET conf == ps[p].conferences[ps[p].i]
            r == Logged(ps[p], Call("GetTalks", conf.id, "", <<>>, "", ok))
            allTalks == r.talks \o SourceGetTalks(conf.id)
        IN ps' = [ps EXCEPT ![p] =
                IF ok THEN FetchLoop([r EXCEPT !.talks = allTalks, !.i = @ + 1])
                ELSE ReturnErr(r, <<E("failed to fetch talks for conference", conf.id)>>)]
    /\ UNCHANGED <<idx, covered, pubWrites>>
    /\ Frame

\* one iteration of the loop over conferences: a failed fetch is logged and skipped
ReindexAll_GetTalks(p) ==
    /\ ps[p].op = "ReindexAll" /\ ps[p].pc = "GetTalks"
    /\ \E ok \in Fetch(p, BOOLEAN) :
        LET conf == ps[p].conferences[ps[p].i]
            r == Logged(ps[p], Call("GetTalks", conf.id, "", <<>>, "", ok))
            allTalks == IF ok THEN r.talks \o SourceGetTalks(conf.id) ELSE r.talks
        IN ps' = [ps EXCEPT ![p] = FetchLoop([r EXCEPT !.talks = allTalks, !.i = @ + 1])]
    /\ UNCHANGED <<idx, covered, pubWrites>>
    /\ Frame

\* faulty variant: the error of the private bulk write is ignored
ReindexAll_BulkPrivate_IgnoreErr(p) ==
    /\ ps[p].op = "ReindexAll" /\ ps[p].pc = "BulkPrivate"
    /\ LET privateTalks == prepareTalksForPrivateIndex(ps[p].talks) IN
       \E o \in Request(p, BulkIndex(idx, PrivateIndex, privateTalks)) :
        LET r == Logged(AfterPrivate(ps[p]), Call("BulkIndex", PrivateIndex, "", privateTalks, o.status, o.ok)) IN
        /\ idx' = o.idx
        /\ ps' = [ps EXCEPT ![p] = [r EXCEPT !.pc = "BulkPublic"]]
    /\ UNCHANGED <<covered, pubWrites>>
    /\ Frame

ReindexAll_BulkPrivate(p) ==
    /\ ps[p].op = "ReindexAll" /\ ps[p].pc = "BulkPrivate"
    /\ LET privateTalks == prepareTalksForPrivateIndex(ps[p].talks) IN
       \E o \in Request(p, BulkIndex(idx, PrivateIndex, privateTalks)) :
        LET r == Logged(AfterPrivate(ps[p]), Call("BulkIndex", PrivateIndex, "", privateTalks, o.status, o.ok)) IN
        /\ idx' = o.idx
        /\ ps' = [ps EXCEPT ![p] =
                IF o.ok
                THEN [r EXCEPT !.pc = "BulkPublic"]
                ELSE ReturnErr(r, <<E("failed to index to private index", ""), E(o.err, "")>>)]
    /\ UNCHANGED <<covered, pubWrites>>
    /\ Frame

\* the public projection of every talk, whatever its status
AllProjectionsForPublic(talks) == [k \in 1..Len(talks) |-> ToPublic(talks[k])]

\* faulty variant: the public batch holds every aggregated talk
ReindexAll_BulkPublic_Unfiltered(p) ==
    /\ ps[p].op = "ReindexAll" /\ ps[p].pc = "BulkPublic"
    /\ LET publicTalks == AllProjectionsForPublic(ps[p].talks) IN
       \E o \in Request(p, BulkIndex(idx, PublicIndex, publicTalks)) :
        LET r == Logged(ps[p], Call("BulkIndex", PublicIndex, "", publicTalks, o.status, o.ok)) IN
        /\ idx' = o.idx
        /\ pubWrites' = pubWrites \cup Written(r.talks, publicTalks)
        /\ ps' = [ps EXCEPT ![p] =
                IF o.ok
                THEN ReturnOk(r)
                ELSE ReturnErr(r, <<E("failed to index to public index", ""), E(o.err, "")>>)]
        /\ covered' = IF o.ok THEN Cover(r.talks) ELSE covered
    /\ Frame

ReindexAll_BulkPublic(p) ==
    /\ ps[p].op = "ReindexAll" /\ ps[p].pc = "BulkPublic"
    /\ LET publicTalks == filterApprovedTalksForPublic(ps[p].talks).elems IN
       \E o \in Request(p, BulkIndex(idx, PublicIndex, publicTalks)) :
        LET r == Logged(ps[p], Call("BulkIndex", PublicIndex, "", publicTalks, o.status, o.ok)) IN
        /\ idx' = o.idx
        /\ pubWrites' = pubWrites \cup Written(r.talks, publicTalks)
        /\ ps' = [ps EXCEPT ![p] =
                IF o.ok
                THEN ReturnOk(r)
                ELSE ReturnErr(r, <<E("failed to index to public index", ""), E(o.err, "")>>)]
        /\ covered' = IF o.ok THEN Cover(r.talks) ELSE covered
    /\ Frame

----------------------------------------------------------------------------
\* ensureIndexExists (used by ReindexConference and ReindexTalk)

\* faulty variant: only the private index is ensured
AfterEnsure_PrivateOnly(r) == [r EXCEPT !.pc = "BulkPrivate"]

AfterEnsure(r) ==
    IF r.indexName = PrivateIndex
    THEN [r EXCEPT !.pc = "ensure.Exists", !.indexName = PublicIndex]
    ELSE [r EXCEPT !.pc = "BulkPrivate"]

\* faulty variant: a failed exists-check is taken for "the index exists"
ensureIndexExists_Check_IgnoreErr(p) ==
    /\ ps[p].op \in {"ReindexConference", "ReindexTalk"} /\ ps[p].pc = "ensure.Exists"
    /\ \E o \in Request(p, IndexExists(idx, ps[p].indexName)) :
        LET r == Logged(ps[p], Call("IndexExists", ps[p].indexName, "", <<>>, o.status, o.ok)) IN
        ps' = [ps EXCEPT ![p] =
                IF o.ok /\ ~o.exists
                THEN [r EXCEPT !.exists = FALSE, !.pc = "ensure.Create"]
                ELSE AfterEnsure([r EXCEPT !.exists = TRUE])]
    /\ UNCHANGED <<idx, covered, pubWrites>>
    /\ Frame

\* first call: IndexExists
ensureIndexExists_Check(p) ==
    /\ ps[p].op \in {"ReindexConference", "ReindexTalk"} /\ ps[p].pc = "ensure.Exists"
    /\ \E o \in Request(p, IndexExists(idx, ps[p].indexName)) :
        LET r == Logged(ps[p], Call("IndexExists", ps[p].indexName, "", <<>>, o.status, o.ok)) IN
        ps' = [ps EXCEPT ![p] =
                IF ~o.ok
                THEN ReturnErr(r, <<E(EnsureMsg(r.indexName), ""),
                                    E("failed to check if index exists", ""),
                                    E(o.err, "")>>)
                ELSE IF ~o.exists
                THEN [r EXCEPT !.exists = FALSE, !.pc = "ensure.Create"]
                ELSE AfterEnsure([r EXCEPT !.exists = TRUE])]
    /\ UNCHANGED <<idx, covered, pubWrites>>
    /\ Frame

\* second call, only when the index was reported absent: CreateIndex
ensureIndexExists_Create(p) ==
    /\ ps[p].op \in {"ReindexConference", "ReindexTalk"} /\ ps[p].pc = "ensure.Create"
    /\ LET mapping == getMappingForIndex(ps[p].indexName) IN
       \E o \in Request(p, CreateIndex(idx, ps[p].indexName, mapping)) :
        LET r == Logged(ps[p], Call("CreateIndex", ps[p].indexName, mapping, <<>>, o.status, o.ok)) IN
        /\ idx' = o.idx
        /\ ps' = [ps EXCEPT ![p] =
                IF ~o.ok
                THEN ReturnErr(r, <<E(EnsureMsg(r.indexName), ""),
                                    E("failed to create index", r.indexName),
                                    E(o.err, "")>>)
                ELSE AfterEnsure(r)]
    /\ UNCHANGED <<covered, pubWrites>>
    /\ Frame

----------------------------------------------------------------------------
\* ReindexConference

\* linear scan for the first conference whose slug equals the argument; 0 if none
RECURSIVE FindSlug(_, _, _)
\* a slug in lower case
ToLower(slug) == IF slug = "JavaZone2024" THEN "javazone2024" ELSE slug

\* faulty variant: the scan compares the slugs without regard to case
RECURSIVE FindSlug_IgnoreCase(_, _, _)
FindSlug_IgnoreCase(conferences, slug, k) ==
    IF k > Len(conferences) THEN 0
    ELSE IF ToLower(conferences[k].slug) = ToLower(slug) THEN k
    ELSE FindSlug_IgnoreCase(conferences, slug, k + 1)

FindSlug(conferences, slug, k) ==
    IF k > Len(conferences) THEN 0
    ELSE IF conferences[k].slug = slug THEN k
    ELSE FindSlug(conferences, slug, k + 1)

ReindexConference_GetConferences(p) ==
    /\ ps[p].op = "ReindexConference" /\ ps[p].pc = "GetConferences"
    /\ \E ok \in Fetch(p, BOOLEAN) :
        LET r == Logged(ps[p], Call("GetConferences", "", "", <<>>, "", ok))
            targetConference == FindSlug(confList, r.arg, 1)
        IN ps' = [ps EXCEPT ![p] =
                IF ~ok
                THEN ReturnErr(r, <<E("failed to fetch conferences", ""), E("source error", "")>>)
                ELSE IF targetConference = 0
                THEN ReturnErr([r EXCEPT !.conferences = confList],
                               <<E("conference not found with slug", r.arg)>>)
                ELSE [r EXCEPT !.conferences = confList, !.i = targetConference,
                               !.pc = "GetTalks"]]
    /\ UNCHANGED <<idx, covered, pubWrites>>
    /\ Frame

\* faulty variant: a failed fetch of the conference's talks is tried once more
ReindexConference_GetTalks_Retry(p) ==
    /\ ps[p].op = "ReindexConference" /\ ps[p].pc = "GetTalks"
    /\ \E ok \in Fetch(p, BOOLEAN) :
        LET targetConference == ps[p].conferences[ps[p].i]
            r == Logged(ps[p], Call("GetTalks", targetConference.id, "", <<>>, "", ok))
        IN ps' = [ps EXCEPT ![p] =
                IF ~ok /\ Len(r.calls) = 2
                THEN r
                ELSE IF ~ok
                THEN ReturnErr(r, <<E("failed to fetch talks for conference", r.arg),
                                    E("source error", "")>>)
                ELSE [r EXCEPT !.talks = SourceGetTalks(targetConference.id),
                               !.pc = "ensure.Exists", !.indexName = PrivateIndex]]
    /\ UNCHANGED <<idx, covered, pubWrites>>
    /\ Frame

\* faulty variant: a failed fetch is treated as an empty conference
ReindexConference_GetTalks_Swallow(p) ==
    /\ ps[p].op = "ReindexConference" /\ ps[p].pc = "GetTalks"
    /\ \E ok \in Fetch(p, BOOLEAN) :
        LET targetConference == ps[p].conferences[ps[p].i]
            r == Logged(ps[p], Call("GetTalks", targetConference.id, "", <<>>, "", ok))
        IN ps' = [ps EXCEPT ![p] =
                [r EXCEPT !.talks = IF ok THEN SourceGetTalks(targetConference.id) ELSE <<>>,
                          !.pc = "ensure.Exists", !.indexName = PrivateIndex]]
    /\ UNCHANGED <<idx, covered, pubWrites>>
    /\ Frame

ReindexConference_GetTalks(p) ==
    /\ ps[p].op = "ReindexConference" /\ ps[p].pc = "GetTalks"
    /\ \E ok \in Fetch(p, BOOLEAN) :
        LET targetConference == ps[p].conferences[ps[p].i]
            r == Logged(ps[p], Call("GetTalks", targetConference.id, "", <<>>, "", ok))
        IN ps' = [ps EXCEPT ![p] =
                IF ~ok
                THEN ReturnErr(r, <<E("failed to fetch talks for conference", r.arg),
                                    E("source error", "")>>)
                ELSE [r EXCEPT !.talks = SourceGetTalks(targetConference.id),
                               !.pc = "ensure.Exists", !.indexName = PrivateIndex]]
    /\ UNCHANGED <<idx, covered, pubWrites>>
    /\ Frame

\* faulty variant: the public batch is written first, the private batch second
ReindexConference_BulkPrivate_PublicFirst(p) ==
    /\ ps[p].op = "ReindexConference" /\ ps[p].pc = "BulkPrivate"
    /\ LET publicTalks == filterApprovedTalksForPublic(ps[p].talks).elems IN
       \E o \in Request(p, BulkIndex(idx, PublicIndex, publicTalks)) :
        LET r == Logged(ps[p], Call("BulkIndex", PublicIndex, "", publicTalks, o.status, o.ok)) IN
        /\ idx' = o.idx
        /\ pubWrites' = pubWrites \cup Written(r.talks, publicTalks)
        /\ ps' = [ps EXCEPT ![p] =
                IF o.ok
                THEN [r EXCEPT !.pc = "BulkPublic"]
                ELSE ReturnErr(r, <<E("failed to index to public index", ""), E(o.err, "")>>)]
    /\ UNCHANGED <<covered>>
    /\ Frame

ReindexConference_BulkPrivate(p) ==
    /\ ps[p].op = "ReindexConference" /\ ps[p].pc = "BulkPrivate"
    /\ LET privateTalks == prepareTalksForPrivateIndex(ps[p].talks) IN
       \E o \in Request(p, BulkIndex(idx, PrivateIndex, privateTalks)) :
        LET r == Logged(AfterPrivate(ps[p]), Call("BulkIndex", PrivateIndex, "", privateTalks, o.status, o.ok)) IN
        /\ idx' = o.idx
        /\ ps' = [ps EXCEPT ![p] =
                IF o.ok
                THEN [r EXCEPT !.pc = "BulkPublic"]
                ELSE ReturnErr(r, <<E("failed to index to private index", ""), E(o.err, "")>>)]
    /\ UNCHANGED <<covered, pubWrites>>
    /\ Frame

ReindexConference_BulkPublic(p) ==
    /\ ps[p].op = "ReindexConference" /\ ps[p].pc = "BulkPublic"
    /\ LET publicTalks == filterApprovedTalksForPublic(ps[p].talks).elems IN
       \E o \in Request(p, BulkIndex(idx, PublicIndex, publicTalks)) :
        LET r == Logged(ps[p], Call("BulkIndex", PublicIndex, "", publicTalks, o.status, o.ok)) IN
        /\ idx' = o.idx
        /\ pubWrites' = pubWrites \cup Written(r.talks, publicTalks)
        /\ ps' = [ps EXCEPT ![p] =
                IF o.ok
                THEN ReturnOk(r)
                ELSE ReturnErr(r, <<E("failed to index to public index", ""), E(o.err, "")>>)]
        /\ covered' = IF o.ok THEN Cover(r.talks) ELSE covered
    /\ Frame

----------------------------------------------------------------------------
\* ReindexTalk

\* faulty variant: the operation goes on to the indexes after a failed fetch
ReindexTalk_GetTalk_GoOn(p) ==
    /\ ps[p].op = "ReindexTalk" /\ ps[p].pc = "GetTalk"
    /\ \E o \in Request(p, GetTalk(ps[p].arg)) :
        LET r == Logged(ps[p], Call("GetTalk", ps[p].arg, "", <<>>, o.status, o.ok)) IN
        ps' = [ps EXCEPT ![p] =
                [r EXCEPT !.talks = IF o.ok THEN <<TalkOf(r.arg)>> ELSE <<>>,
                          !.pc = "ensure.Exists", !.indexName = PrivateIndex]]
    /\ UNCHANGED <<idx, covered, pubWrites>>
    /\ Frame

ReindexTalk_GetTalk(p) ==
    /\ ps[p].op = "ReindexTalk" /\ ps[p].pc = "GetTalk"
    /\ \E o \in Request(p, GetTalk(ps[p].arg)) :
        LET r == Logged(ps[p], Call("GetTalk", ps[p].arg, "", <<>>, o.status, o.ok)) IN
        ps' = [ps EXCEPT ![p] =
                IF ~o.ok
                THEN ReturnErr(r, <<E("failed to fetch talk", r.arg),
                                    E("failed to fetch talk", r.arg), E(o.err, o.status)>>)
                ELSE [r EXCEPT !.talks = <<TalkOf(r.arg)>>,
                               !.pc = "ensure.Exists", !.indexName = PrivateIndex]]
    /\ UNCHANGED <<idx, covered, pubWrites>>
    /\ Frame

\* faulty variant: the public projection is written whatever the status
ReindexTalk_BulkPrivate_AlwaysPublic(p) ==
    /\ ps[p].op = "ReindexTalk" /\ ps[p].pc = "BulkPrivate"
    /\ LET targetTalk == ps[p].talks[1]
           privateTalk == ToPrivate(targetTalk) IN
       \E o \in Request(p, BulkIndex(idx, PrivateIndex, <<privateTalk>>)) :
        LET r == Logged(AfterPrivate(ps[p]), Call("BulkIndex", PrivateIndex, "", <<privateTalk>>, o.status, o.ok)) IN
        /\ idx' = o.idx
        /\ ps' = [ps EXCEPT ![p] =
                IF ~o.ok
                THEN ReturnErr(r, <<E("failed to index to private index", ""), E(o.err, "")>>)
                ELSE [r EXCEPT !.pc = "BulkPublic"]]
    /\ UNCHANGED <<covered, pubWrites>>
    /\ Frame

\* faulty variant: the public index is never written
ReindexTalk_BulkPrivate_NeverPublic(p) ==
    /\ ps[p].op = "ReindexTalk" /\ ps[p].pc = "BulkPrivate"
    /\ LET targetTalk == ps[p].talks[1]
           privateTalk == ToPrivate(targetTalk) IN
       \E o \in Request(p, BulkIndex(idx, PrivateIndex, <<privateTalk>>)) :
        LET r == Logged(AfterPrivate(ps[p]), Call("BulkIndex", PrivateIndex, "", <<privateTalk>>, o.status, o.ok)) IN
        /\ idx' = o.idx
        /\ ps' = [ps EXCEPT ![p] =
                IF ~o.ok
                THEN ReturnErr(r, <<E("failed to index to private index", ""), E(o.err, "")>>)
                ELSE ReturnOk(r)]
        /\ covered' = IF o.ok THEN Cover(r.talks) ELSE covered
    /\ UNCHANGED <<pubWrites>>
    /\ Frame

ReindexTalk_BulkPrivate(p) ==
    /\ ps[p].op = "ReindexTalk" /\ ps[p].pc = "BulkPrivate"
    /\ LET targetTalk == ps[p].talks[1]
           privateTalk == ToPrivate(targetTalk) IN
       \E o \in Request(p, BulkIndex(idx, PrivateIndex, <<privateTalk>>)) :
        LET r == Logged(AfterPrivate(ps[p]), Call("BulkIndex", PrivateIndex, "", <<privateTalk>>, o.status, o.ok)) IN
        /\ idx' = o.idx
        /\ ps' = [ps EXCEPT ![p] =
                IF ~o.ok
                THEN ReturnErr(r, <<E("failed to index to private index", ""), E(o.err, "")>>)
                ELSE IF IsPublic(targetTalk.status)
                THEN [r EXCEPT !.pc = "BulkPublic"]
                ELSE ReturnOk(r)]
        /\ covered' = IF o.ok /\ ~IsPublic(targetTalk.status) THEN Cover(r.talks) ELSE covered
    /\ UNCHANGED <<pubWrites>>
    /\ Frame

ReindexTalk_BulkPublic(p) ==
    /\ ps[p].op = "ReindexTalk" /\ ps[p].pc = "BulkPublic"
    /\ LET targetTalk == ps[p].talks[1]
           publicTalk == ToPublic(targetTalk) IN
       \E o \in Request(p, BulkIndex(idx, PublicIndex, <<publicTalk>>)) :
        LET r == Logged(ps[p], Call("BulkIndex", PublicIndex, "", <<publicTalk>>, o.status, o.ok)) IN
        /\ idx' = o.idx
        /\ pubWrites' = pubWrites \cup Written(r.talks, <<publicTalk>>)
        /\ ps' = [ps EXCEPT ![p] =
                IF o.ok
                THEN ReturnOk(r)
                ELSE ReturnErr(r, <<E("failed to index to public index", ""), E(o.err, "")>>)]
        /\ covered' = IF o.ok THEN Cover(r.talks) ELSE covered
    /\ Frame

----------------------------------------------------------------------------
\* Upstream: the source's records change between and during operations

UpstreamStatusChange ==
    /\ changes < MaxChanges
    /\ \E t \in TalkIds : \E st \in Statuses \ {source[t].status} :
        source' = [source EXCEPT ![t].status = st]
    /\ changes' = changes + 1
    /\ UNCHANGED <<confList, idx, ps, opsStarted, covered, pubWrites, prev, responses, pure, server, cache, auth>>

UpstreamPrivateDataChange ==
    /\ changes < MaxChanges
    /\ \E t \in TalkIds : \E pd \in PrivateDataOf(t) \ {source[t].privateData} :
        source' = [source EXCEPT ![t].privateData = pd]
    /\ changes' = changes + 1
    /\ UNCHANGED <<confList, idx, ps, opsStarted, covered, pubWrites, prev, responses, pure, server, cache, auth>>

----------------------------------------------------------------------------
\* Specification: operations run one after another on process p1

\* the caller cancels the context of the running operation (the request's
\* context, handed down to every gateway call)
Cancel(p) ==
    /\ Running(p)
    /\ ~ps[p].cancelled
    /\ ps' = [ps EXCEPT ![p].cancelled = TRUE, ![p].cancelledAt = Len(ps[p].calls)]
    /\ UNCHANGED <<idx, covered, pubWrites>>
    /\ Frame

\* what made the operation fail, read off the gateway calls it made
Cause(r) ==
    IF r.ok THEN "none"
    ELSE IF r.op = "ReindexConference" /\ Len(r.calls) = 1 /\ r.calls[1].ok THEN "not found"
    ELSE IF r.op = "ReindexTalk" /\ r.calls[1].status = "404" THEN "not found"
    ELSE IF r.calls[Len(r.calls)].fn \in {"GetConferences", "GetTalks", "GetTalk"}
    THEN "upstream fetch failure"
    ELSE IF r.calls[Len(r.calls)].fn = "BulkIndex" THEN "bulk write failure"
    ELSE "index lifecycle failure"

\* writeSuccessResponse / writeErrorResponse: status 200 and "success", or
\* status 500 and "error" with the text of the error as message
ResponseTo(r) ==
    IF r.ok
    THEN [code |-> 200, status |-> "success", message |-> <<>>]
    ELSE [code |-> 500, status |-> "error", message |-> r.err]

\* the API handler writes the response once the operation has returned
writeResponse(p) ==
    /\ ps[p].pc = "returned"
    /\ responses' = responses \cup {[cause |-> Cause(ps[p]), response |-> ResponseTo(ps[p])]}
    /\ UNCHANGED <<confList, source, idx, ps, opsStarted, changes, covered, pubWrites, prev, pure, server, cache, auth>>

\* The server before main has run, under no particular configuration.
NoRequest == [method |-> "", path |-> <<>>, session |-> "none"]

NoResponse == [req |-> NoRequest, code |-> "", handler |-> "", invoked |-> "none"]

ServerIdle ==
    [mode |-> "production", oidc |-> FALSE, wiring |-> "adapters", state |-> "configured",
     mux |-> {}, last |-> NoResponse]

\* The web handler as constructed: nothing cached, the mutex free, no caller.
Callers == {"h1", "h2"}

NoResult == [ok |-> FALSE, list |-> NilSlice]

CacheIdle ==
    [conferences |-> NilSlice, readers |-> {}, writer |-> "",
     pc |-> [c \in Callers |-> "idle"], result |-> [c \in Callers |-> NoResult],
     calls |-> 0, fetches |-> 0, failures |-> 0, provided |-> {}]

\* The session store as constructed: no session; the clock at 0; no request.
Slots == {"r1", "r2"}

NoReq ==
    [pc |-> "idle", cookie |-> 0, sess |-> 0, wasRevoked |-> FALSE, wasPresent |-> FALSE,
     wasFresh |-> FALSE, code |-> "", invoked |-> FALSE]

AuthIdle ==
    [sessions |-> {}, issued |-> {}, now |-> 0, loggedOut |-> {}, expired |-> {},
     req |-> [r \in Slots |-> NoReq]]

PureIdle ==
    [fn |-> "none", talks |-> <<>>, out |-> NilSlice, done |-> FALSE,
     indexName |-> "", ix |-> [n \in IndexNames |-> NoIndex]]

Init ==
    /\ confList \in ConfLists
    /\ \E st \in [TalkIds -> Statuses] :
        source = [t \in TalkIds |-> [status |-> st[t], privateData |-> InitialPrivateData(t)]]
    /\ idx = [n \in IndexNames |-> NoIndex]
    /\ ps = [p \in Procs |-> IdleProc]
    /\ opsStarted = 0
    /\ changes = 0
    /\ covered = [t \in TalkIds |-> ""]
    /\ pubWrites = {}
    /\ prev = Summary(IdleProc)
    /\ responses = {}
    /\ pure = PureIdle
    /\ server = ServerIdle
    /\ cache = CacheIdle
    /\ auth = AuthIdle

Step(p) ==
    \/ StartReindexAll(p)
    \/ StartReindexConference(p)
    \/ StartReindexTalk(p)
    \/ ReindexAll_GetConferences(p)
    \/ recreateIndex_Delete(p)
    \/ recreateIndex_Create(p)
    \/ ReindexAll_GetTalks(p)
    \/ ReindexAll_BulkPrivate(p)
    \/ ReindexAll_BulkPublic(p)
    \/ ReindexConference_GetConferences(p)
    \/ ReindexConference_GetTalks(p)
    \/ ensureIndexExists_Check(p)
    \/ ensureIndexExists_Create(p)
    \/ ReindexConference_BulkPrivate(p)
    \/ ReindexConference_BulkPublic(p)
    \/ ReindexTalk_GetTalk(p)
    \/ ReindexTalk_BulkPrivate(p)
    \/ ReindexTalk_BulkPublic(p)

Next ==
    \/ Step("p1")
    \/ UpstreamStatusChange
    \/ UpstreamPrivateDataChange

Spec == Init /\ [][Next]_vars

----------------------------------------------------------------------------
\* Specification of the pure functions: filterApprovedTalksForPublic applied to
\* every list of at most MaxLen talks over all statuses

\* Specification with cancellation: operations run one after another on p1 and
\* the caller may cancel the running one at any point
NextCancel ==
    \/ Step("p1")
    \/ Cancel("p1")

SpecCancel == Init /\ [][NextCancel]_vars

\* Specification with the API handlers: operations run one after another on p1
\* and the handler that invoked the operation writes the response
NextApi ==
    \/ Step("p1")
    \/ writeResponse("p1")

SpecApi == Init /\ [][NextApi]_vars

AllStatuses == {"APPROVED", "approved", "SUBMITTED", "REJECTED", "DRAFT", ""}

IdAt(k) == IF k = 1 THEN "t1" ELSE IF k = 2 THEN "t2" ELSE IF k = 3 THEN "t3" ELSE "t4"

TalkAt(k, status) ==
    [id |-> IdAt(k), conferenceID |-> "c1", status |-> status,
     data |-> [title |-> "Talk"], privateData |-> [postedBy |-> "alice@example.com"]]

TalkLists ==
    UNION {{[k \in 1..n |-> TalkAt(k, st[k])] : st \in [1..n -> AllStatuses]} : n \in 0..MaxLen}

InitPure ==
    /\ confList = <<>>
    /\ source = [t \in TalkIds |-> [status |-> "SUBMITTED", privateData |-> InitialPrivateData(t)]]
    /\ idx = [n \in IndexNames |-> NoIndex]
    /\ ps = [p \in Procs |-> IdleProc]
    /\ opsStarted = 0
    /\ changes = 0
    /\ covered = [t \in TalkIds |-> ""]
    /\ pubWrites = {}
    /\ prev = Summary(IdleProc)
    /\ responses = {}
    /\ \E talks \in TalkLists :
        pure = [PureIdle EXCEPT !.fn = "filterApprovedTalksForPublic", !.talks = talks]
    /\ server = ServerIdle
    /\ cache = CacheIdle
    /\ auth = AuthIdle

Call_filterApprovedTalksForPublic ==
    /\ pure.fn = "filterApprovedTalksForPublic" /\ ~pure.done
    /\ pure' = [pure EXCEPT !.out = filterApprovedTalksForPublic(pure.talks), !.done = TRUE]
    /\ UNCHANGED <<confList, source, idx, ps, opsStarted, changes, covered, pubWrites, prev, responses, server, cache, auth>>

NextPure == Call_filterApprovedTalksForPublic

SpecPure == InitPure /\ [][NextPure]_vars

----------------------------------------------------------------------------
\* Properties.  They speak of the operation running on process p1 and of the
\* gateway calls it has made so far.

P1 == ps["p1"]

IsGetTalks(c) == c.fn = "GetTalks"
IsBulkIndex(c) == c.fn = "BulkIndex"
IsSearchCall(c) == c.fn \in {"BulkIndex", "DeleteIndex", "CreateIndex", "IndexExists"}

GetTalksCalls == SelectSeq(P1.calls, IsGetTalks)
BulkCalls == SelectSeq(P1.calls, IsBulkIndex)
LastCall == P1.calls[Len(P1.calls)]

Ids(talks) == [k \in 1..Len(talks) |-> talks[k].id]
Elems(seq) == {seq[k] : k \in 1..Len(seq)}

\* the ids of the talks of one conference, in the order the source lists them
RECURSIVE IdsIn(_, _)
IdsIn(conferenceID, order) ==
    IF order = <<>> THEN <<>>
    ELSE (IF ConfOf(Head(order)) = conferenceID THEN <<Head(order)>> ELSE <<>>)
         \o IdsIn(conferenceID, Tail(order))

\* the ids of the talks of the conferences whose GetTalks call succeeded
RECURSIVE FetchedIds(_)
FetchedIds(gt) ==
    IF gt = <<>> THEN <<>>
    ELSE (IF Head(gt).ok THEN IdsIn(Head(gt).arg, TalkOrder) ELSE <<>>) \o FetchedIds(Tail(gt))

\* C1: in ReindexAll a failed GetTalks is swallowed: GetTalks is called for the
\* conferences in list order whatever the earlier fetches returned, once the
\* loop is over it has been called for every conference, an error return is
\* never the consequence of a GetTalks failure, and every batch written holds
\* exactly (private) or only (public) the talks of the conferences whose fetch
\* succeeded.
C1_FetchFailureSwallowed ==
    P1.op = "ReindexAll" =>
        /\ Len(GetTalksCalls) <= Len(P1.conferences)
        /\ \A k \in 1..Len(GetTalksCalls) : GetTalksCalls[k].arg = P1.conferences[k].id
        /\ (P1.pc \in {"BulkPrivate", "BulkPublic"} \/ BulkCalls # <<>>
                \/ (P1.pc = "returned" /\ P1.ok))
              => Len(GetTalksCalls) = Len(P1.conferences)
        /\ (P1.pc = "returned" /\ ~P1.ok) => (LastCall.fn # "GetTalks" /\ ~LastCall.ok)
        /\ \A k \in 1..Len(BulkCalls) :
              IF BulkCalls[k].arg = PrivateIndex
              THEN Ids(BulkCalls[k].batch) = FetchedIds(GetTalksCalls)
              ELSE Elems(Ids(BulkCalls[k].batch)) \subseteq Elems(FetchedIds(GetTalksCalls))

\* C1 witness: a ReindexAll that returned success although the fetch for the
\* first conference failed, and that wrote the talks of the second one
C1_Witness ==
    /\ P1.op = "ReindexAll" /\ P1.pc = "returned" /\ P1.ok
    /\ Len(GetTalksCalls) = 2
    /\ ~GetTalksCalls[1].ok /\ GetTalksCalls[2].ok
    /\ Len(BulkCalls) = 2
    /\ BulkCalls[1].batch # <<>> /\ BulkCalls[2].batch # <<>>
    /\ idx[PublicIndex].docs # {}

\* C2: in ReindexAll and ReindexConference the BulkIndex to the private index
\* comes before the one to the public index: a public BulkIndex is only ever
\* issued right after a private BulkIndex that returned nil, and when the
\* private BulkIndex returned an error the operation has returned an error and
\* issued no BulkIndex to the public index.
C2_PrivateBeforePublic ==
    P1.op \in {"ReindexAll", "ReindexConference"} =>
        /\ \A k \in 1..Len(P1.calls) :
              (P1.calls[k].fn = "BulkIndex" /\ P1.calls[k].arg = PublicIndex)
                => /\ k > 1
                   /\ P1.calls[k - 1].fn = "BulkIndex"
                   /\ P1.calls[k - 1].arg = PrivateIndex
                   /\ P1.calls[k - 1].ok
        /\ \A k \in 1..Len(P1.calls) :
              (P1.calls[k].fn = "BulkIndex" /\ P1.calls[k].arg = PrivateIndex /\ ~P1.calls[k].ok)
                => /\ P1.pc = "returned" /\ ~P1.ok
                   /\ k = Len(P1.calls)
                   /\ \A j \in 1..Len(P1.calls) :
                        ~(P1.calls[j].fn = "BulkIndex" /\ P1.calls[j].arg = PublicIndex)
        /\ Len(BulkCalls) <= 2
        /\ (P1.pc = "BulkPublic") => (BulkCalls # <<>> /\ LastCall.arg = PrivateIndex /\ LastCall.ok)

\* C2 witness: a ReindexConference whose private BulkIndex failed
C2_Witness ==
    /\ P1.op = "ReindexConference" /\ P1.pc = "returned" /\ ~P1.ok
    /\ LastCall.fn = "BulkIndex" /\ LastCall.arg = PrivateIndex /\ ~LastCall.ok
    /\ LastCall.batch # <<>>

IsFailedPrivateBulk(c) == c.fn = "BulkIndex" /\ c.arg = PrivateIndex /\ ~c.ok
FailedPrivateBulks == SelectSeq(P1.calls, IsFailedPrivateBulk)

\* the ReindexAll on p1 has returned, and its private bulk write had failed
PrivateWriteFailed ==
    /\ P1.op = "ReindexAll" /\ P1.pc = "returned"
    /\ FailedPrivateBulks # <<>>

\* C3 as stated: when ReindexAll returns after a failed private bulk write,
\* neither index contains any talk document.
C3_NoCorpusStateAfterPrivateFailure ==
    PrivateWriteFailed => (idx[PrivateIndex].docs = {} /\ idx[PublicIndex].docs = {})

\* C3 amended: when ReindexAll returns after a failed private bulk write, it
\* returns an error, the public index exists and contains no talk document, and
\* the private index contains only documents of the failed batch (those the
\* search engine applied before reporting errors), nothing of what it held
\* before the operation.
C3_Amended_PublicEmptyPrivateOnlyFromBatch ==
    PrivateWriteFailed =>
        /\ ~P1.ok
        /\ idx[PublicIndex].exists /\ idx[PublicIndex].docs = {}
        /\ idx[PrivateIndex].exists
        /\ idx[PrivateIndex].docs \subseteq Elems(FailedPrivateBulks[1].batch)

\* C3 witness: a ReindexAll returned after a private bulk write that the engine
\* applied for some documents and reported as having errors; the indexes held
\* documents before the operation
C3_Witness ==
    /\ PrivateWriteFailed
    /\ FailedPrivateBulks[1].status = "200"
    /\ idx[PrivateIndex].docs # {}
    /\ P1.pre[PrivateIndex].docs # {} /\ P1.pre[PublicIndex].docs # {}

\* C4: the public index contains only approved talks: whenever no operation is
\* running, every document of the public index belongs to a talk whose status
\* was APPROVED when an operation covering it last completed successfully.
C4_PublicIndexOnlyApproved ==
    ~Running("p1") =>
        \A d \in idx[PublicIndex].docs : covered[d.id] \in {"", "APPROVED"}

\* C5: a ReindexTalk whose talk is not APPROVED issues no BulkIndex to the
\* public index and deletes nothing: the documents of the public index are,
\* at every point of the operation, those it held when the operation started.
C5_NonApprovedTalkLeavesPublicIndex ==
    (P1.op = "ReindexTalk" /\ P1.talks # <<>> /\ ~IsPublic(P1.talks[1].status)) =>
        /\ \A k \in 1..Len(P1.calls) :
              /\ ~(P1.calls[k].fn = "BulkIndex" /\ P1.calls[k].arg = PublicIndex)
              /\ P1.calls[k].fn # "DeleteIndex"
        /\ idx[PublicIndex].docs = P1.pre[PublicIndex].docs
        /\ (P1.pc = "returned" /\ P1.ok) => Len(BulkCalls) = 1

\* C5 witness: a ReindexTalk of a talk that is no longer APPROVED has returned
\* success, and the public document an earlier operation wrote for that talk
\* is still in the public index
C5_Witness ==
    /\ P1.op = "ReindexTalk" /\ P1.pc = "returned" /\ P1.ok
    /\ ~IsPublic(P1.talks[1].status)
    /\ \E d \in idx[PublicIndex].docs : d.id = P1.talks[1].id /\ d.status = "APPROVED"

\* what a public write may depend on: the source talk apart from its privateData
Low(t) == [t EXCEPT !.privateData = EmptyMap]

\* C6: no private data reaches the public index: two public writes whose source
\* talks are identical except for their privateData sent the same document, and
\* a document sent to the public index has no key of its talk's privateData
\* that is absent from the talk's data.
C6_NoPrivateDataInPublicIndex ==
    /\ \A w1, w2 \in pubWrites : Low(w1.src) = Low(w2.src) => w1.doc = w2.doc
    /\ \A w \in pubWrites :
          \A k \in (DOMAIN w.doc.data) \cup (DOMAIN w.doc.privateData) :
              k \in DOMAIN w.src.privateData => k \in DOMAIN w.src.data

\* C6 witness: the public index was written twice for a talk whose privateData
\* differed between the two writes, and once for a talk whose privateData and
\* data share a key
C6_Witness ==
    /\ \E w1, w2 \in pubWrites :
          /\ Low(w1.src) = Low(w2.src)
          /\ w1.src.privateData # w2.src.privateData
          /\ DOMAIN w1.src.privateData # {} /\ DOMAIN w2.src.privateData # {}
    /\ \E w \in pubWrites : (DOMAIN w.src.privateData) \cap (DOMAIN w.src.data) # {}

\* doc is the private projection of talk t: every key of data and of
\* privateData, privateData's value where both have the key, nothing else, and
\* an empty privateData
IsPrivateProjection(doc, t) ==
    /\ doc.id = t.id /\ doc.conferenceID = t.conferenceID /\ doc.status = t.status
    /\ DOMAIN doc.data = (DOMAIN t.data) \cup (DOMAIN t.privateData)
    /\ \A k \in DOMAIN doc.data :
          doc.data[k] = IF k \in DOMAIN t.privateData THEN t.privateData[k] ELSE t.data[k]
    /\ DOMAIN doc.privateData = {}

IsPrivateBulk(c) == c.fn = "BulkIndex" /\ c.arg = PrivateIndex
PrivateBulks == SelectSeq(P1.calls, IsPrivateBulk)

\* C7: every batch an operation sends to the private index holds, for every
\* talk the operation handles and in the same order, the private projection of
\* that talk, whatever its status; an operation that succeeded with talks to
\* handle has sent such a batch.
C7_PrivateProjectionWritten ==
    /\ \A j \in 1..Len(PrivateBulks) :
          /\ Len(PrivateBulks[j].batch) = Len(P1.talks)
          /\ \A k \in 1..Len(P1.talks) : IsPrivateProjection(PrivateBulks[j].batch[k], P1.talks[k])
    /\ (P1.pc = "returned" /\ P1.ok /\ P1.talks # <<>>) => Len(PrivateBulks) = 1

\* C7 witness: an operation wrote the private projection of a talk that is not
\* APPROVED and whose data and privateData share a key
C7_Witness ==
    /\ P1.pc = "returned" /\ P1.ok /\ Len(PrivateBulks) = 1
    /\ \E k \in 1..Len(P1.talks) :
          /\ P1.talks[k].status # "APPROVED"
          /\ (DOMAIN P1.talks[k].data) \cap (DOMAIN P1.talks[k].privateData) # {}
          /\ PrivateBulks[1].batch[k] \in idx[PrivateIndex].docs

IsApproved(t) == t.status = "APPROVED"

\* the public projections of the talks whose status is exactly APPROVED, in order
ApprovedProjections(talks) ==
    LET ap == SelectSeq(talks, IsApproved)
    IN [k \in 1..Len(ap) |-> [ap[k] EXCEPT !.privateData = EmptyMap]]

\* C8: filterApprovedTalksForPublic returns a non-nil list holding the public
\* projection of exactly the talks whose status is the string APPROVED, in
\* input order; no other status (approved, SUBMITTED, REJECTED, DRAFT, empty)
\* yields a projection.
C8_FilterExactlyApproved ==
    (pure.fn = "filterApprovedTalksForPublic" /\ pure.done) =>
        /\ ~pure.out.isNil
        /\ pure.out.elems = ApprovedProjections(pure.talks)
        /\ \A k \in 1..Len(pure.talks) :
              (\E j \in 1..Len(pure.out.elems) : pure.out.elems[j].id = pure.talks[k].id)
                <=> pure.talks[k].status = "APPROVED"

\* C8 witness: the filter was applied to a list holding an APPROVED talk between
\* an 'approved' one and one with an empty status, and returned one projection
C8_Witness ==
    /\ pure.fn = "filterApprovedTalksForPublic" /\ pure.done
    /\ Len(pure.talks) = 3
    /\ pure.talks[1].status = "approved"
    /\ pure.talks[2].status = "APPROVED"
    /\ pure.talks[3].status = ""
    /\ Len(pure.out.elems) = 1 /\ pure.out.elems[1].id = pure.talks[2].id

\* C9: when GetConferences fails in ReindexAll the operation has returned an
\* error, GetConferences is the only gateway call it made (no DeleteIndex,
\* CreateIndex, GetTalks or BulkIndex), and both indexes are as they were when
\* the operation started.
C9_FetchConferencesFailureTouchesNothing ==
    (P1.op = "ReindexAll" /\ P1.calls # <<>> /\ ~P1.calls[1].ok) =>
        /\ P1.calls[1].fn = "GetConferences"
        /\ P1.pc = "returned" /\ ~P1.ok
        /\ Len(P1.calls) = 1
        /\ idx = P1.pre

\* C9 witness: a ReindexAll failed on GetConferences while both indexes held
\* documents
C9_Witness ==
    /\ P1.op = "ReindexAll" /\ P1.pc = "returned" /\ ~P1.ok
    /\ Len(P1.calls) = 1 /\ P1.calls[1].fn = "GetConferences"
    /\ idx[PrivateIndex].docs # {} /\ idx[PublicIndex].docs # {}

\* the four index-lifecycle calls of ReindexAll, in order
RecreateCalls ==
    << [fn |-> "DeleteIndex", arg |-> PrivateIndex, mapping |-> ""],
       [fn |-> "CreateIndex", arg |-> PrivateIndex, mapping |-> TalkPrivateIndexMapping],
       [fn |-> "DeleteIndex", arg |-> PublicIndex, mapping |-> ""],
       [fn |-> "CreateIndex", arg |-> PublicIndex, mapping |-> TalkPublicIndexMapping] >>

\* C10: once the conference list is fetched, ReindexAll calls DeleteIndex and
\* CreateIndex (with the mapping of that index) for the private and then the
\* public index, whatever the list holds and whether or not the index exists,
\* and before any GetTalks or BulkIndex; it only goes on while these calls
\* succeed, a DeleteIndex answered 404 (index absent) is a success, and after
\* the four calls both indexes exist, empty, with their designated mappings.
C10_RecreateBothIndexesFirst ==
    (P1.op = "ReindexAll" /\ P1.calls # <<>> /\ P1.calls[1].ok) =>
        /\ \A k \in 2..Len(P1.calls) :
              /\ P1.calls[k - 1].ok \/ P1.calls[k - 1].fn = "GetTalks"
              /\ k <= 5 =>
                   /\ P1.calls[k].fn = RecreateCalls[k - 1].fn
                   /\ P1.calls[k].arg = RecreateCalls[k - 1].arg
                   /\ P1.calls[k].mapping = RecreateCalls[k - 1].mapping
              /\ k > 5 => P1.calls[k].fn \in {"GetTalks", "BulkIndex"}
              /\ (P1.calls[k].fn = "DeleteIndex" /\ P1.calls[k].status = "404") => P1.calls[k].ok
        /\ (P1.pc \in {"GetTalks", "BulkPrivate", "BulkPublic"} \/ (P1.pc = "returned" /\ P1.ok))
              => Len(P1.calls) >= 5
        /\ (Len(P1.calls) = 5 /\ P1.calls[5].ok) =>
              /\ idx[PrivateIndex] = [exists |-> TRUE, mapping |-> TalkPrivateIndexMapping, docs |-> {}]
              /\ idx[PublicIndex] = [exists |-> TRUE, mapping |-> TalkPublicIndexMapping, docs |-> {}]

\* C10 witness: a ReindexAll over an empty conference list succeeded from a
\* state where neither index existed
C10_Witness ==
    /\ P1.op = "ReindexAll" /\ P1.pc = "returned" /\ P1.ok
    /\ P1.conferences = <<>>
    /\ ~P1.pre[PrivateIndex].exists /\ ~P1.pre[PublicIndex].exists
    /\ Len(P1.calls) = 5
    /\ P1.calls[2].status = "404" /\ P1.calls[4].status = "404"

\* the index as CreateIndex leaves it: existing, designated mapping, no document
FreshIndex(indexName) ==
    [exists |-> TRUE, mapping |-> getMappingForIndex(indexName), docs |-> {}]

\* the fetch loop of the ReindexAll on p1 is over and aggregated no talk
AggregateEmpty ==
    /\ P1.op = "ReindexAll"
    /\ Len(P1.calls) >= 5 /\ P1.calls[5].ok
    /\ Len(GetTalksCalls) = Len(P1.conferences)
    /\ P1.talks = <<>>

\* C11: when the aggregated talk list of ReindexAll is empty (no conference, or
\* no conference yields a talk), ReindexAll has returned success, has made no
\* BulkIndex call at all, has deleted and recreated both indexes, and both
\* indexes exist and are empty.
C11_EmptyAggregateIsSuccessfulNoOp ==
    AggregateEmpty =>
        /\ P1.pc = "returned" /\ P1.ok
        /\ BulkCalls = <<>>
        /\ \A k \in 1..4 :
              /\ P1.calls[k + 1].fn = RecreateCalls[k].fn
              /\ P1.calls[k + 1].arg = RecreateCalls[k].arg
              /\ P1.calls[k + 1].ok
        /\ \A n \in IndexNames : idx[n] = FreshIndex(n)

\* C11 witness: a ReindexAll over two conferences whose fetches both failed
\* returned success and left empty two indexes that held documents before
C11_Witness ==
    /\ AggregateEmpty /\ P1.pc = "returned" /\ P1.ok
    /\ Len(P1.conferences) = 2
    /\ P1.pre[PrivateIndex].docs # {} /\ P1.pre[PublicIndex].docs # {}
    /\ idx[PrivateIndex].docs = {} /\ idx[PublicIndex].docs = {}

\* the ids of a set of documents
DocIds(docs) == {d.id : d \in docs}

\* the ReindexAll on p1 has returned success after aggregating at least one talk
ReindexAllSucceededNonEmpty ==
    /\ P1.op = "ReindexAll" /\ P1.pc = "returned" /\ P1.ok
    /\ P1.talks # <<>>

\* C12: a successful ReindexAll with a non-empty aggregate has issued exactly
\* one BulkIndex per index, private first: the private batch holds one document
\* for every aggregated talk (the talks of every conference whose fetch
\* succeeded, whatever their status), the public batch one document for exactly
\* the aggregated talks whose status is APPROVED, and afterwards the two
\* indexes hold exactly these documents.
C12_OneBatchPerIndex ==
    ReindexAllSucceededNonEmpty =>
        /\ Len(BulkCalls) = 2
        /\ BulkCalls[1].arg = PrivateIndex /\ BulkCalls[2].arg = PublicIndex
        /\ Ids(BulkCalls[1].batch) = FetchedIds(GetTalksCalls)
        /\ Ids(BulkCalls[1].batch) = Ids(P1.talks)
        /\ \A j, k \in 1..Len(P1.talks) : P1.talks[j].id = P1.talks[k].id => j = k
        /\ Ids(BulkCalls[2].batch) = Ids(SelectSeq(P1.talks, IsApproved))
        /\ idx[PrivateIndex].docs = Elems(BulkCalls[1].batch)
        /\ idx[PublicIndex].docs = Elems(BulkCalls[2].batch)
        /\ Cardinality(idx[PrivateIndex].docs) = Len(P1.talks)
        /\ Cardinality(idx[PublicIndex].docs) = Len(SelectSeq(P1.talks, IsApproved))

\* C12 witness: a successful ReindexAll over two conferences with three talks,
\* two of them APPROVED: three documents in the private index, two in the
\* public one
C12_Witness ==
    /\ ReindexAllSucceededNonEmpty
    /\ Len(P1.conferences) = 2
    /\ Len(P1.talks) = 3
    /\ Cardinality(idx[PrivateIndex].docs) = 3
    /\ Cardinality(idx[PublicIndex].docs) = 2
    /\ "t2" \notin DocIds(idx[PublicIndex].docs)

\* a DeleteIndex or CreateIndex call of the ReindexAll on p1 returned an error
RecreateFailed ==
    /\ P1.op = "ReindexAll"
    /\ \E k \in 1..Len(P1.calls) :
          P1.calls[k].fn \in {"DeleteIndex", "CreateIndex"} /\ ~P1.calls[k].ok

\* the indexes the operation on p1 has created
Recreated ==
    {n \in IndexNames :
        \E k \in 1..Len(P1.calls) :
            P1.calls[k].fn = "CreateIndex" /\ P1.calls[k].arg = n /\ P1.calls[k].ok}

\* C13: when DeleteIndex or CreateIndex returns an error in ReindexAll, the
\* operation has returned an error naming the index, the failed call is its
\* last gateway call (no GetTalks, no BulkIndex), at most one of the two
\* indexes has been recreated, an index whose deletion failed is as it was, and
\* an index deleted before its creation failed stays absent.
C13_RecreateFailureIsFatal ==
    RecreateFailed =>
        /\ P1.pc = "returned" /\ ~P1.ok
        /\ ~LastCall.ok /\ LastCall.fn \in {"DeleteIndex", "CreateIndex"}
        /\ \A k \in 1..(Len(P1.calls) - 1) : P1.calls[k].ok
        /\ \A k \in 1..Len(P1.calls) : P1.calls[k].fn \notin {"GetTalks", "BulkIndex"}
        /\ P1.err[1].msg = RecreateMsg(LastCall.arg) /\ P1.err[2].arg = LastCall.arg
        /\ Cardinality(Recreated) <= 1
        /\ LastCall.fn = "DeleteIndex" => idx[LastCall.arg] = P1.pre[LastCall.arg]
        /\ LastCall.fn = "CreateIndex" => idx[LastCall.arg] = NoIndex
        /\ IF LastCall.arg = PrivateIndex
           THEN Recreated = {} /\ idx[PublicIndex] = P1.pre[PublicIndex]
           ELSE Recreated = {PrivateIndex} /\ idx[PrivateIndex] = FreshIndex(PrivateIndex)

\* C13 witness: creating the public index failed after the private index was
\* recreated and the public index, which held documents, was deleted
C13_Witness ==
    /\ RecreateFailed /\ P1.pc = "returned"
    /\ LastCall.fn = "CreateIndex" /\ LastCall.arg = PublicIndex
    /\ P1.pre[PublicIndex].docs # {}
    /\ ~idx[PublicIndex].exists
    /\ idx[PrivateIndex].exists

\* the ReindexConference on p1 has fetched the conference list
ConferencesFetched ==
    /\ P1.op = "ReindexConference"
    /\ P1.calls # <<>> /\ P1.calls[1].fn = "GetConferences" /\ P1.calls[1].ok

\* the operation on p1 has returned the 'conference not found' error
ConferenceNotFound ==
    /\ P1.pc = "returned" /\ ~P1.ok
    /\ P1.err[1].msg = "conference not found with slug"

\* C14: once GetConferences has succeeded, ReindexConference(slug) fails with
\* 'conference not found' if and only if no conference of the fetched list has
\* a slug equal, character for character, to the argument; it then has made no
\* other gateway call (no GetTalks, IndexExists, CreateIndex, DeleteIndex or
\* BulkIndex) and both indexes are as they were.
C14_ConferenceNotFound ==
    ConferencesFetched =>
        /\ P1.conferences = confList
        /\ ConferenceNotFound <=>
              (\A k \in 1..Len(P1.conferences) : P1.conferences[k].slug # P1.arg)
        /\ ConferenceNotFound =>
              /\ Len(P1.calls) = 1
              /\ P1.err[1].arg = P1.arg
              /\ idx = P1.pre

\* C14 witness: ReindexConference("JavaZone2024") failed with 'conference not
\* found' although the list holds a conference with the slug javazone2024
C14_Witness ==
    /\ ConferencesFetched /\ ConferenceNotFound
    /\ P1.arg = "JavaZone2024"
    /\ \E k \in 1..Len(P1.conferences) : P1.conferences[k].slug = "javazone2024"
    /\ idx[PrivateIndex].docs # {}

\* call k of the operation on p1 is a successful IndexExists for indexName
IsExistsCheck(k, indexName) ==
    /\ P1.calls[k].fn = "IndexExists" /\ P1.calls[k].arg = indexName /\ P1.calls[k].ok

\* C15: ReindexConference and ReindexTalk never call DeleteIndex, and before
\* their first BulkIndex they have called IndexExists for the private index
\* name and then for the public index name, both answered without error.
C15_ScopedOperationsEnsureNeverDelete ==
    P1.op \in {"ReindexConference", "ReindexTalk"} =>
        /\ \A k \in 1..Len(P1.calls) : P1.calls[k].fn # "DeleteIndex"
        /\ \A k \in 1..Len(P1.calls) :
              P1.calls[k].fn = "BulkIndex" =>
                  \E i, j \in 1..(k - 1) :
                      /\ i < j
                      /\ IsExistsCheck(i, PrivateIndex)
                      /\ IsExistsCheck(j, PublicIndex)
        /\ P1.pc \in {"BulkPrivate", "BulkPublic"} =>
              \E i, j \in 1..Len(P1.calls) :
                  i < j /\ IsExistsCheck(i, PrivateIndex) /\ IsExistsCheck(j, PublicIndex)

\* C15 witness: a ReindexConference or ReindexTalk found both indexes present,
\* wrote to both, and the private index still holds the talks it held before
C15_Witness ==
    /\ P1.op \in {"ReindexConference", "ReindexTalk"}
    /\ P1.pc = "returned" /\ P1.ok
    /\ Len(BulkCalls) = 2 /\ BulkCalls[2].batch # <<>>
    /\ \E i, j \in 1..Len(P1.calls) :
          /\ IsExistsCheck(i, PrivateIndex) /\ P1.calls[i].status = "200"
          /\ IsExistsCheck(j, PublicIndex) /\ P1.calls[j].status = "200"
    /\ P1.pre[PrivateIndex].docs # {}
    /\ DocIds(P1.pre[PrivateIndex].docs) \subseteq DocIds(idx[PrivateIndex].docs)

\* the documents of docs whose talk id is not among the talks
Others(docs, talks) == {d \in docs : d.id \notin Elems(Ids(talks))}

\* C16: ReindexConference is an additive upsert: at every point of the
\* operation, and in both indexes, the documents whose talk id is not among the
\* talks fetched for the matched conference are exactly those present when the
\* operation started (none removed, none changed, none added), so the documents
\* of other conferences indexed earlier are all still present.
C16_ReindexConferenceIsAdditive ==
    P1.op = "ReindexConference" =>
        \A n \in IndexNames :
            /\ Others(idx[n].docs, P1.talks) = Others(P1.pre[n].docs, P1.talks)
            /\ Others(P1.pre[n].docs, P1.talks) \subseteq idx[n].docs
            /\ DocIds(P1.pre[n].docs) \subseteq DocIds(idx[n].docs)

\* C16 witness: a successful ReindexConference overwrote a document of its
\* conference in the private index while a document of another conference,
\* indexed earlier, is still there
C16_Witness ==
    /\ P1.op = "ReindexConference" /\ P1.pc = "returned" /\ P1.ok
    /\ Others(P1.pre[PrivateIndex].docs, P1.talks) # {}
    /\ Others(P1.pre[PublicIndex].docs, P1.talks) # {}
    /\ \E d \in P1.pre[PrivateIndex].docs :
          d.id \in Elems(Ids(P1.talks)) /\ d \notin idx[PrivateIndex].docs

\* the ReindexTalk on p1 has returned success
ReindexTalkSucceeded == P1.op = "ReindexTalk" /\ P1.pc = "returned" /\ P1.ok

\* C17: a successful ReindexTalk has issued BulkIndex to the private index with
\* a batch holding only the requested talk; when the talk's status is APPROVED
\* it has then issued a second and last BulkIndex, to the public index, again
\* with only that talk; when the status is not APPROVED the private BulkIndex
\* is its only one.
C17_ReindexTalkWrites ==
    ReindexTalkSucceeded =>
        /\ Len(P1.talks) = 1 /\ P1.talks[1].id = P1.arg
        /\ Len(BulkCalls) >= 1
        /\ BulkCalls[1].arg = PrivateIndex /\ Ids(BulkCalls[1].batch) = <<P1.arg>>
        /\ IF P1.talks[1].status = "APPROVED"
           THEN /\ Len(BulkCalls) = 2
                /\ BulkCalls[2].arg = PublicIndex /\ Ids(BulkCalls[2].batch) = <<P1.arg>>
           ELSE Len(BulkCalls) = 1
        /\ \A k \in 1..Len(BulkCalls) : BulkCalls[k].ok

\* C17 witness: a successful ReindexTalk of an APPROVED talk wrote it to the
\* private and then to the public index
C17_Witness ==
    /\ ReindexTalkSucceeded
    /\ P1.talks[1].status = "APPROVED"
    /\ Len(BulkCalls) = 2
    /\ \E d \in idx[PrivateIndex].docs : d.id = P1.arg
    /\ \E d \in idx[PublicIndex].docs : d.id = P1.arg

\* the GetTalk call of the ReindexTalk on p1 returned an error
GetTalkFailed ==
    /\ P1.op = "ReindexTalk"
    /\ P1.calls # <<>> /\ ~P1.calls[1].ok

\* C18: when GetTalk fails in ReindexTalk (unknown talk or any other fetch
\* error) the operation has returned an error that carries the requested talk
\* id, GetTalk for that id is the only gateway call it made (no IndexExists,
\* CreateIndex or BulkIndex), and both indexes are as they were.
C18_GetTalkFailureIsFatal ==
    GetTalkFailed =>
        /\ P1.calls[1].fn = "GetTalk" /\ P1.calls[1].arg = P1.arg
        /\ P1.pc = "returned" /\ ~P1.ok
        /\ P1.err[1] = E("failed to fetch talk", P1.arg)
        /\ Len(P1.calls) = 1
        /\ idx = P1.pre

\* C18 witness: ReindexTalk of an id the source does not know failed while
\* both indexes held documents
C18_Witness ==
    /\ GetTalkFailed /\ P1.pc = "returned"
    /\ P1.arg = "unknown"
    /\ idx[PrivateIndex].docs # {} /\ idx[PublicIndex].docs # {}

\* the mapping designated for an index name
DesignatedMapping(indexName) ==
    IF indexName = "javazone_private" THEN "TalkPrivateIndexMapping"
    ELSE "TalkPublicIndexMapping"

\* call k of the operation on p1 is an IndexExists that reported the index absent
ReportedAbsent(k) ==
    P1.calls[k].fn = "IndexExists" /\ P1.calls[k].ok /\ P1.calls[k].status = "404"

\* call k of the operation on p1 is an IndexExists that reported the index present
ReportedPresent(k) ==
    P1.calls[k].fn = "IndexExists" /\ P1.calls[k].ok /\ P1.calls[k].status = "200"

\* C19: in ReindexConference and ReindexTalk a CreateIndex call is always the
\* call right after an IndexExists that reported the same index absent, an
\* IndexExists that reported the index absent is always followed by CreateIndex
\* for that index, and one that reported it present never is; every CreateIndex
\* call, of ensure-exists as of recreate in ReindexAll, passes the private
\* mapping for the private index name and the public mapping for the public
\* index name, and an index it created has that mapping.
C19_CreateIffAbsentWithDesignatedMapping ==
    /\ P1.op \in {"ReindexConference", "ReindexTalk"} =>
          \A k \in 1..Len(P1.calls) :
              /\ P1.calls[k].fn = "CreateIndex" =>
                    /\ k > 1 /\ ReportedAbsent(k - 1)
                    /\ P1.calls[k - 1].arg = P1.calls[k].arg
              /\ ReportedAbsent(k) =>
                    IF k = Len(P1.calls)
                    THEN P1.pc = "ensure.Create" /\ P1.indexName = P1.calls[k].arg
                    ELSE /\ P1.calls[k + 1].fn = "CreateIndex"
                         /\ P1.calls[k + 1].arg = P1.calls[k].arg
              /\ ReportedPresent(k) =>
                    /\ P1.pc # "ensure.Create" \/ k < Len(P1.calls)
                    /\ k < Len(P1.calls) => P1.calls[k + 1].fn # "CreateIndex"
    /\ \A k \in 1..Len(P1.calls) :
          P1.calls[k].fn = "CreateIndex" =>
              /\ P1.calls[k].arg \in IndexNames
              /\ P1.calls[k].mapping = DesignatedMapping(P1.calls[k].arg)
              /\ (P1.calls[k].ok /\ idx[P1.calls[k].arg].exists) =>
                    idx[P1.calls[k].arg].mapping = DesignatedMapping(P1.calls[k].arg)

\* C19 witness: a scoped operation found the private index present and created
\* nothing for it, found the public index absent and created it with the
\* public mapping
C19_Witness ==
    /\ P1.op \in {"ReindexConference", "ReindexTalk"}
    /\ Len(P1.calls) >= 4
    /\ ReportedPresent(2) /\ P1.calls[2].arg = PrivateIndex
    /\ ReportedAbsent(3) /\ P1.calls[3].arg = PublicIndex
    /\ P1.calls[4].fn = "CreateIndex" /\ P1.calls[4].ok
    /\ P1.calls[4].mapping = "TalkPublicIndexMapping"
    /\ idx[PublicIndex].mapping = "TalkPublicIndexMapping"

\* the argument of the operation on p1 names something the source has
Resolvable ==
    \/ P1.op = "ReindexAll"
    \/ P1.op = "ReindexConference" /\ \E k \in 1..Len(confList) : confList[k].slug = P1.arg
    \/ P1.op = "ReindexTalk" /\ P1.arg \in TalkIds

\* the operation on p1 has returned and none of its gateway calls failed
ReturnedWithoutGatewayFailure == P1.pc = "returned" /\ NoGatewayFailure(P1)

\* the operation on p1 repeats, with the same argument, the invocation before
\* it, which succeeded without gateway failure, and nothing changed upstream
IsRetry ==
    /\ P1.op # "none"
    /\ prev = [op |-> P1.op, arg |-> P1.arg]
    /\ changes = 0

\* C20: the three operations are idempotent and safe to retry: an invocation
\* whose argument the source resolves succeeds whenever no gateway call fails,
\* and when ReindexAll, ReindexConference(slug) or ReindexTalk(id) is invoked a
\* second time in succession, with no upstream change and no gateway failure,
\* the second invocation succeeds as the first did and leaves both indexes
\* exactly as the first left them.
C20_OperationsAreIdempotent ==
    /\ (ReturnedWithoutGatewayFailure /\ Resolvable) => P1.ok
    /\ (ReturnedWithoutGatewayFailure /\ IsRetry) =>
          /\ P1.ok
          /\ idx = P1.pre
          /\ \A n \in IndexNames : idx[n].docs = P1.pre[n].docs

\* C20 witness: a second ReindexConference in succession succeeded after
\* writing to both indexes, which hold documents
C20_Witness ==
    /\ ReturnedWithoutGatewayFailure /\ IsRetry
    /\ P1.op = "ReindexConference" /\ P1.ok
    /\ Len(BulkCalls) = 2 /\ BulkCalls[1].status = "200" /\ BulkCalls[2].status = "200"
    /\ idx[PrivateIndex].docs # {} /\ idx[PublicIndex].docs # {}

\* the operation on p1 was cancelled while running and a gateway call it made
\* afterwards failed
CancelledInFlight ==
    /\ P1.cancelled
    /\ \E k \in 1..Len(P1.calls) : k > P1.cancelledAt /\ ~P1.calls[k].ok

\* C21: when the caller's cancellation fires while an operation is running and
\* a gateway call made from then on fails with the cancellation error, the
\* operation returns an error, never success - for ReindexAll also when the
\* cancellation arrives during the per-conference fetch loop.
C21_CancelledOperationReturnsError ==
    (CancelledInFlight /\ P1.pc = "returned") => ~P1.ok

\* what a caller can branch on in a response: the HTTP status code and the
\* status field of the body (the message is free text)
Classification(response) == <<response.code, response.status>>

\* C22: not-found is a distinguishable error: the response to a ReindexConference
\* of an unknown slug or a ReindexTalk of an unknown talk id carries a
\* classification different from that of every response to an upstream fetch
\* failure, an index-lifecycle failure or a bulk-write failure.
C22_NotFoundIsDistinguishable ==
    \A a, b \in responses :
        (a.cause = "not found" /\ b.cause \notin {"not found", "none"})
            => Classification(a.response) # Classification(b.response)

\* the number of calls of the operation on p1 to the gateway function fn
CallCount(fn) == Cardinality({k \in 1..Len(P1.calls) : P1.calls[k].fn = fn})

\* C23: the orchestrator never retries and never fans out: an operation makes
\* its gateway calls one after the other; ReindexAll and ReindexConference
\* start with their one and only GetConferences, ReindexTalk with its one and
\* only GetTalk; GetTalks is called at most once per conference - by
\* ReindexConference once at most, by ReindexAll for the listed conferences in
\* list order, each exactly once when the loop is over; a call that failed is
\* never issued again, and only after a failed GetTalks of ReindexAll is any
\* further call made at all.
C23_NoRetryNoFanOut ==
    /\ (P1.op \in {"ReindexAll", "ReindexConference"} /\ P1.calls # <<>>) =>
          P1.calls[1].fn = "GetConferences" /\ CallCount("GetConferences") = 1
    /\ (P1.op = "ReindexTalk" /\ P1.calls # <<>>) =>
          /\ P1.calls[1].fn = "GetTalk" /\ P1.calls[1].arg = P1.arg
          /\ CallCount("GetTalk") = 1
          /\ CallCount("GetConferences") = 0 /\ CallCount("GetTalks") = 0
    /\ P1.op = "ReindexConference" => CallCount("GetTalks") <= 1
    /\ P1.op = "ReindexAll" =>
          /\ \A k \in 1..Len(GetTalksCalls) : GetTalksCalls[k].arg = P1.conferences[k].id
          /\ Len(GetTalksCalls) <= Len(P1.conferences)
          /\ (P1.pc = "returned" /\ P1.ok) => Len(GetTalksCalls) = Len(P1.conferences)
    /\ \A j, k \in 1..Len(GetTalksCalls) : j # k => GetTalksCalls[j].arg # GetTalksCalls[k].arg
    /\ \A j, k \in 1..Len(P1.calls) :
          (j < k /\ ~P1.calls[j].ok) =>
              /\ P1.op = "ReindexAll" /\ P1.calls[j].fn = "GetTalks"
              /\ ~(P1.calls[k].fn = P1.calls[j].fn /\ P1.calls[k].arg = P1.calls[j].arg)
    /\ (P1.calls # <<>> /\ ~LastCall.ok /\ ~(P1.op = "ReindexAll" /\ LastCall.fn = "GetTalks"))
          => P1.pc = "returned" /\ ~P1.ok

\* C23 witness: a ReindexConference whose GetTalks failed returned the error
\* after exactly two gateway calls
C23_Witness ==
    /\ P1.op = "ReindexConference" /\ P1.pc = "returned" /\ ~P1.ok
    /\ Len(P1.calls) = 2
    /\ P1.calls[2].fn = "GetTalks" /\ ~P1.calls[2].ok

----------------------------------------------------------------------------
\* Specification of the search gateway's BulkIndex: the call applied to every
\* list of at most MaxLen talks, for both index names, on an index that is
\* absent, empty, or holds an older document of the first talk

IndexStates ==
    {[n \in IndexNames |-> NoIndex],
     [n \in IndexNames |-> [exists |-> TRUE, mapping |-> getMappingForIndex(n), docs |-> {}]],
     [n \in IndexNames |-> [exists |-> TRUE, mapping |-> getMappingForIndex(n),
                            docs |-> {TalkAt(1, "DRAFT")}]]}

InitBulk ==
    /\ confList = <<>>
    /\ source = [t \in TalkIds |-> [status |-> "SUBMITTED", privateData |-> InitialPrivateData(t)]]
    /\ idx = [n \in IndexNames |-> NoIndex]
    /\ ps = [p \in Procs |-> IdleProc]
    /\ opsStarted = 0
    /\ changes = 0
    /\ covered = [t \in TalkIds |-> ""]
    /\ pubWrites = {}
    /\ prev = Summary(IdleProc)
    /\ responses = {}
    /\ \E talks \in TalkLists, n \in IndexNames, ix \in IndexStates :
        pure = [PureIdle EXCEPT !.fn = "BulkIndex", !.talks = talks, !.indexName = n, !.ix = ix]
    /\ server = ServerIdle
    /\ cache = CacheIdle
    /\ auth = AuthIdle

Call_BulkIndex ==
    /\ pure.fn = "BulkIndex" /\ ~pure.done
    /\ \E o \in BulkIndex(pure.ix, pure.indexName, pure.talks) :
        pure' = [pure EXCEPT !.out = o, !.done = TRUE]
    /\ UNCHANGED <<confList, source, idx, ps, opsStarted, changes, covered, pubWrites, prev,
                   responses, server, cache, auth>>

NextBulk == Call_BulkIndex

SpecBulk == InitBulk /\ [][NextBulk]_vars

\* the documents of the batch that the call added to the index or replaced in it
Indexed == pure.out.idx[pure.indexName].docs \ pure.ix[pure.indexName].docs

\* C24: BulkIndex called with an empty list returns nil without sending any
\* request, the index being left as it was; when the engine's response reports
\* errors, BulkIndex returns an error for the whole batch, whether or not
\* documents of that batch were indexed, and those documents stay indexed; it
\* returns nil only when the engine indexed every document of the batch.
C24_BulkIndexEmptyAndPartial ==
    (pure.fn = "BulkIndex" /\ pure.done) =>
        /\ pure.talks = <<>> =>
              /\ pure.out.ok
              /\ pure.out.status = ""
              /\ pure.out.idx = pure.ix
        /\ pure.talks # <<>> => pure.out.status # ""
        /\ pure.out.errors => ~pure.out.ok
        /\ Indexed \subseteq Elems(pure.talks)
        /\ (pure.out.ok /\ pure.talks # <<>>) =>
              /\ Elems(pure.talks) \subseteq pure.out.idx[pure.indexName].docs
              /\ pure.out.idx[pure.indexName].exists

\* C24 witness: the engine reported errors for a batch of three talks after
\* indexing two of them; BulkIndex returned an error and the two are indexed
C24_Witness ==
    /\ pure.fn = "BulkIndex" /\ pure.done
    /\ Len(pure.talks) = 3
    /\ pure.out.errors /\ ~pure.out.ok
    /\ Cardinality(Indexed) = 2

\* ---------------------------------------------------------------------------
\* The HTTP server: configuration, route registration, middleware, dispatch.
\* ---------------------------------------------------------------------------

\* MODE is read as a free string; only "development" is the development mode.
Modes == {"production", "development", "staging"}

IsDevelopment(mode) == mode = "development"

\* The source holds two main functions: one wires the routes with package
\* functions, one with the api, auth and web adapters.
Wirings == {"functions", "adapters"}

Route(method, segs, handler, middleware) ==
    [method |-> method, segs |-> segs, handler |-> handler, middleware |-> middleware]

HealthRoutes == {Route("GET", <<"health">>, "api.HandleHealth", "none")}

APIRoutes ==
    {Route("POST", <<"api", "reindex">>, "api.HandleReindexAll", "none"),
     Route("POST", <<"api", "reindex", "conference", "{slug}">>, "api.HandleReindexConference", "none"),
     Route("POST", <<"api", "reindex", "talk", "{talkId}">>, "api.HandleReindexTalk", "none")}

\* faulty variant: the API routes are registered in every mode.
api_RegisterRoutes_AnyMode(mode) == HealthRoutes \cup APIRoutes

\* api.Adapter.RegisterRoutes: health always, the reindex routes in development.
api_RegisterRoutes(mode) ==
    HealthRoutes \cup (IF IsDevelopment(mode) THEN APIRoutes ELSE {})

AuthRoutes ==
    {Route("GET", <<"auth", "callback">>, "auth.HandleCallback", "none"),
     Route("POST", <<"auth", "logout">>, "auth.HandleLogout", "none")}

\* The admin routes, each wrapped with the given middleware.
web_RegisterRoutes(middleware) ==
    {Route("GET", <<"admin">>, "web.HandleDashboard", middleware),
     Route("POST", <<"admin", "reindex", "all">>, "web.HandleReindexAll", middleware),
     Route("POST", <<"admin", "reindex", "conference">>, "web.HandleReindexConference", middleware),
     Route("POST", <<"admin", "reindex", "talk">>, "web.HandleReindexTalk", middleware)}

\* auth.New: passthrough in development, an error in any other mode without
\* OIDC settings, otherwise RequireAuth unless the authenticator cannot be built.
auth_New(mode, oidc) ==
    IF IsDevelopment(mode) THEN {[ok |-> TRUE, handler |-> FALSE, middleware |-> "passthrough"]}
    ELSE IF ~oidc THEN {[ok |-> FALSE, handler |-> FALSE, middleware |-> ""]}
    ELSE {[ok |-> TRUE, handler |-> TRUE, middleware |-> "RequireAuth"],
          [ok |-> FALSE, handler |-> FALSE, middleware |-> ""]}

\* The main that wires with adapters: it exits when auth.New fails.
main_adapters(mode, oidc) ==
    {IF a.ok
        THEN [state |-> "listening",
              mux |-> api_RegisterRoutes(mode)
                        \cup (IF a.handler THEN AuthRoutes ELSE {})
                        \cup web_RegisterRoutes(a.middleware)]
        ELSE [state |-> "exited", mux |-> {}]
     : a \in auth_New(mode, oidc)}

\* The main that wires with package functions: outside development and with
\* OIDC settings the admin routes are protected (or the process exits when the
\* authenticator cannot be built); in every other case they are registered
\* without middleware, and a warning is logged.
main_functions(mode, oidc) ==
    LET api == HealthRoutes \cup (IF IsDevelopment(mode) THEN APIRoutes ELSE {})
    IN  IF ~IsDevelopment(mode) /\ oidc
            THEN {[state |-> "listening",
                   mux |-> api \cup AuthRoutes \cup web_RegisterRoutes("RequireAuth")],
                  [state |-> "exited", mux |-> {}]}
            ELSE {[state |-> "listening", mux |-> api \cup web_RegisterRoutes("none")]}

\* main: from the configuration to a listening server, or an exit.
main ==
    /\ server.state = "configured"
    /\ \E m \in (IF server.wiring = "adapters"
                    THEN main_adapters(server.mode, server.oidc)
                    ELSE main_functions(server.mode, server.oidc)) :
        server' = [server EXCEPT !.state = m.state, !.mux = m.mux]
    /\ UNCHANGED <<confList, source, idx, ps, opsStarted, changes, covered, pubWrites, prev,
                   responses, pure, cache, auth>>

IsWildcard(seg) == seg \in {"{slug}", "{talkId}"}

PathMatches(segs, path) ==
    /\ Len(segs) = Len(path)
    /\ \A k \in 1..Len(segs) : IsWildcard(segs[k]) \/ segs[k] = path[k]

\* What a handler does once reached: its status code and the indexer
\* operation it invokes. The reindex handlers answer 200 or 500 with the
\* operation's outcome.
Serve(handler, req) ==
    CASE handler = "api.HandleHealth" -> {[code |-> "200", invoked |-> "none"]}
      [] handler \in {"api.HandleReindexAll", "web.HandleReindexAll"} ->
            {[code |-> c, invoked |-> "ReindexAll"] : c \in {"200", "500"}}
      [] handler \in {"api.HandleReindexConference", "web.HandleReindexConference"} ->
            {[code |-> c, invoked |-> "ReindexConference"] : c \in {"200", "500"}}
      [] handler \in {"api.HandleReindexTalk", "web.HandleReindexTalk"} ->
            {[code |-> c, invoked |-> "ReindexTalk"] : c \in {"200", "500"}}
      [] OTHER -> {[code |-> "200", invoked |-> "none"]}

\* Middleware.RequireAuth: without a session cookie the store knows, the
\* request is redirected to the login (500 when no state can be generated)
\* and the wrapped handler is not called.
RequireAuth(handler, req) ==
    IF req.session = "valid"
        THEN {[code |-> o.code, handler |-> handler, invoked |-> o.invoked] : o \in Serve(handler, req)}
        ELSE {[code |-> c, handler |-> "", invoked |-> "none"] : c \in {"302", "500"}}

\* http.ServeMux: the route of the request's method and path; 405 when only
\* the path matches a route, 404 when nothing does.
Dispatch(mux, req) ==
    LET hits == {r \in mux : r.method = req.method /\ PathMatches(r.segs, req.path)}
    IN  IF hits # {}
            THEN UNION {IF r.middleware = "RequireAuth"
                            THEN RequireAuth(r.handler, req)
                            ELSE {[code |-> o.code, handler |-> r.handler, invoked |-> o.invoked]
                                    : o \in Serve(r.handler, req)}
                        : r \in hits}
        ELSE IF \E r \in mux : PathMatches(r.segs, req.path)
            THEN {[code |-> "405", handler |-> "", invoked |-> "none"]}
        ELSE {[code |-> "404", handler |-> "", invoked |-> "none"]}

Paths ==
    {<<"health">>, <<"api", "reindex">>, <<"api", "reindex", "conference", "javazone-2024">>,
     <<"api", "reindex", "talk", "t1">>, <<"admin">>, <<"admin", "reindex", "all">>,
     <<"admin", "reindex", "conference">>, <<"admin", "reindex", "talk">>, <<"missing">>}

Requests == [method : {"GET", "POST"}, path : Paths, session : {"none", "stale", "valid"}]

\* One request served by the listening server.
ServeHTTP ==
    /\ server.state = "listening"
    /\ \E req \in Requests : \E o \in Dispatch(server.mux, req) :
        server' = [server EXCEPT !.last =
                     [req |-> req, code |-> o.code, handler |-> o.handler, invoked |-> o.invoked]]
    /\ UNCHANGED <<confList, source, idx, ps, opsStarted, changes, covered, pubWrites, prev,
                   responses, pure, cache, auth>>

InitHttp ==
    /\ confList = <<>>
    /\ source = [t \in TalkIds |-> [status |-> "SUBMITTED", privateData |-> InitialPrivateData(t)]]
    /\ idx = [n \in IndexNames |-> NoIndex]
    /\ ps = [p \in Procs |-> IdleProc]
    /\ opsStarted = 0
    /\ changes = 0
    /\ covered = [t \in TalkIds |-> ""]
    /\ pubWrites = {}
    /\ prev = Summary(IdleProc)
    /\ responses = {}
    /\ pure = PureIdle
    /\ \E mode \in Modes, oidc \in BOOLEAN, wiring \in Wirings :
        server = [ServerIdle EXCEPT !.mode = mode, !.oidc = oidc, !.wiring = wiring]
    /\ cache = CacheIdle
    /\ auth = AuthIdle

NextHttp == main \/ ServeHTTP

SpecHttp == InitHttp /\ [][NextHttp]_vars

IsAdminPath(path) == Len(path) >= 1 /\ path[1] = "admin"

IsApiPath(path) == Len(path) >= 2 /\ path[1] = "api" /\ path[2] = "reindex"

\* C25: outside development the admin routes are served only behind the
\* authentication middleware: every admin route of a listening server is
\* wrapped with RequireAuth, and a request without a valid session never
\* reaches an admin handler or triggers a reindex operation, whether or not
\* the OIDC settings are present.
C25_AdminRequiresAuthInProduction ==
    (~IsDevelopment(server.mode) /\ server.state = "listening") =>
        /\ \A r \in server.mux : IsAdminPath(r.segs) => r.middleware = "RequireAuth"
        /\ (IsAdminPath(server.last.req.path) /\ server.last.req.session # "valid") =>
              /\ server.last.handler = ""
              /\ server.last.invoked = "none"

\* C26: the reindex API routes are reachable only in development: in any
\* other mode a request to them is answered 404 and invokes no indexer
\* operation, in development a POST reaches its handler, and GET /health is
\* answered 200 in every mode.
C26_ApiRoutesOnlyInDevelopment ==
    LET last == server.last IN
    (server.state = "listening" /\ last.code # "") =>
        /\ (IsApiPath(last.req.path) /\ ~IsDevelopment(server.mode)) =>
              /\ last.code = "404" /\ last.handler = "" /\ last.invoked = "none"
        /\ (IsApiPath(last.req.path) /\ IsDevelopment(server.mode) /\ last.req.method = "POST") =>
              /\ last.handler \in {"api.HandleReindexAll", "api.HandleReindexConference",
                                   "api.HandleReindexTalk"}
              /\ last.invoked # "none"
        /\ (last.req.path = <<"health">> /\ last.req.method = "GET") =>
              /\ last.code = "200" /\ last.handler = "api.HandleHealth"

\* C26 witness: a production server has answered 404 to a POST on a reindex
\* API route.
C26_Witness ==
    /\ server.state = "listening" /\ server.mode = "production"
    /\ server.last.req.method = "POST"
    /\ server.last.req.path = <<"api", "reindex", "talk", "t1">>
    /\ server.last.code = "404"

IsPublicBulk(c) == c.fn = "BulkIndex" /\ c.arg = PublicIndex

InitConcurrent ==
    /\ confList = <<Conference("c1")>>
    /\ source = [t \in TalkIds |->
                    [status |-> IF t = "t1" THEN "APPROVED" ELSE "SUBMITTED",
                     privateData |-> InitialPrivateData(t)]]
    /\ idx = [n \in IndexNames |-> NoIndex]
    /\ ps = [p \in Procs |-> IdleProc]
    /\ opsStarted = 0
    /\ changes = 0
    /\ covered = [t \in TalkIds |-> ""]
    /\ pubWrites = {}
    /\ prev = Summary(IdleProc)
    /\ responses = {}
    /\ pure = PureIdle
    /\ server = ServerIdle
    /\ cache = CacheIdle
    /\ auth = AuthIdle

NextConcurrent == Step("p1") \/ Step("p2")

SpecConcurrent == InitConcurrent /\ [][NextConcurrent]_vars

ScopedOps == {"ReindexConference", "ReindexTalk"}

\* a CreateIndex call the engine refused because the index existed already
CreateOnExisting(c) == c.fn = "CreateIndex" /\ c.status = "400"

\* C28: when two scoped operations run concurrently from absent indexes, no
\* CreateIndex is applied to an index that exists at that moment, and so
\* neither operation fails because the other created the index first.
C28_EnsureIsCreateIfAbsentUnderConcurrency ==
    (\A p \in Procs : ps[p].op \in ScopedOps /\ \A n \in IndexNames : ~ps[p].pre[n].exists) =>
        \A p \in Procs :
            /\ \A k \in 1..Len(ps[p].calls) : ~CreateOnExisting(ps[p].calls[k])
            /\ (ps[p].pc = "returned" /\ ~ps[p].ok /\ ps[p].calls # <<>>) =>
                  ~CreateOnExisting(ps[p].calls[Len(ps[p].calls)])

\* C29: while a ReindexAll and a scoped operation interleave, every write
\* lands on an index that exists with its designated mapping (no index comes
\* into being through a bulk write), and no CreateIndex of the ReindexAll is
\* applied to an index that exists.
C29_WritesLandOnCreatedIndexes ==
    (\E p, q \in Procs : ps[p].op = "ReindexAll" /\ ps[q].op \in ScopedOps) =>
        /\ \A n \in IndexNames : idx[n].exists => idx[n].mapping = getMappingForIndex(n)
        /\ \A p \in Procs :
              ps[p].op = "ReindexAll" =>
                  \A k \in 1..Len(ps[p].calls) : ~CreateOnExisting(ps[p].calls[k])

\* the ReindexAll on p1 has asked for the talks of every conference of a
\* non-empty conference list, and every one of these fetches has failed
EveryFetchFailed ==
    /\ P1.op = "ReindexAll"
    /\ P1.conferences # <<>>
    /\ Len(GetTalksCalls) = Len(P1.conferences)
    /\ \A k \in 1..Len(GetTalksCalls) : ~GetTalksCalls[k].ok

IsRecreateCall(c) == c.fn \in {"DeleteIndex", "CreateIndex"}

\* C30: a ReindexAll whose GetTalks failed for every conference of a non-empty
\* list has returned success: it deleted and created each index once, with
\* success, issued no BulkIndex, and no document the indexes held before the
\* call is left in them.
C30_AllFetchesFailedEmptiesIndexes ==
    EveryFetchFailed =>
        /\ P1.pc = "returned" /\ P1.ok /\ P1.err = <<>>
        /\ BulkCalls = <<>>
        /\ LET rc == SelectSeq(P1.calls, IsRecreateCall) IN
              /\ Len(rc) = 4
              /\ \A k \in 1..4 : rc[k].ok
              /\ \A n \in IndexNames :
                    /\ \E k \in 1..4 : rc[k].fn = "DeleteIndex" /\ rc[k].arg = n
                    /\ \E k \in 1..4 : rc[k].fn = "CreateIndex" /\ rc[k].arg = n
        /\ \A n \in IndexNames :
              /\ idx[n].exists
              /\ idx[n].docs \cap P1.pre[n].docs = {}
              /\ idx[n].docs = {}

\* C30 witness: a ReindexAll over one conference, whose only fetch failed,
\* returned success and removed the documents an earlier operation had
\* written to the private and to the public index.
C30_Witness ==
    /\ EveryFetchFailed /\ P1.pc = "returned" /\ P1.ok
    /\ Len(P1.conferences) = 1
    /\ \E d \in P1.pre[PublicIndex].docs : d.status = "APPROVED"
    /\ Cardinality(P1.pre[PrivateIndex].docs) >= 2
    /\ idx[PrivateIndex].docs = {} /\ idx[PublicIndex].docs = {}

\* the ReindexAll on p1 has returned success after every per-conference fetch
\* succeeded
ReindexAllSucceededAllFetched ==
    /\ P1.op = "ReindexAll" /\ P1.pc = "returned" /\ P1.ok
    /\ Len(GetTalksCalls) = Len(P1.conferences)
    /\ \A k \in 1..Len(GetTalksCalls) : GetTalksCalls[k].ok

\* the ids of the talks the fetches of the operation on p1 returned
ReturnedIds == Elems(Ids(P1.talks))

\* C31: ReindexAll is a destructive rebuild: after a successful ReindexAll in
\* which every fetch succeeded, whatever the indexes held before, the private
\* index holds a document for exactly the talk ids the source returned (its
\* private projection) and the public index for exactly those whose status is
\* APPROVED (its public projection); every other document of an earlier run
\* is gone.
C31_ReindexAllIsDestructiveRebuild ==
    ReindexAllSucceededAllFetched =>
        /\ ReturnedIds = Elems(FetchedIds(GetTalksCalls))
        /\ DocIds(idx[PrivateIndex].docs) = ReturnedIds
        /\ DocIds(idx[PublicIndex].docs) = {t \in ReturnedIds : \E k \in 1..Len(P1.talks) :
                                                P1.talks[k].id = t /\ P1.talks[k].status = "APPROVED"}
        /\ idx[PrivateIndex].docs = Elems(prepareTalksForPrivateIndex(P1.talks))
        /\ idx[PublicIndex].docs = Elems(ApprovedProjections(P1.talks))
        /\ \A d \in P1.pre[PublicIndex].docs :
              (\A k \in 1..Len(P1.talks) : P1.talks[k].id = d.id => P1.talks[k].status # "APPROVED")
                  => d.id \notin DocIds(idx[PublicIndex].docs)

\* C31 witness: a successful ReindexAll with every fetch successful removed
\* from the public index the document of a talk that was APPROVED at an
\* earlier run and no longer is.
C31_Witness ==
    /\ ReindexAllSucceededAllFetched
    /\ \E d \in P1.pre[PublicIndex].docs :
          /\ d.id \in ReturnedIds
          /\ d.id \notin DocIds(idx[PublicIndex].docs)
    /\ P1.talks # <<>>

\* the GetTalks of the ReindexConference on p1 has failed
ConferenceFetchFailed ==
    /\ P1.op = "ReindexConference"
    /\ \E k \in 1..Len(P1.calls) : P1.calls[k].fn = "GetTalks" /\ ~P1.calls[k].ok

\* C32: in ReindexConference the fetch precedes ensure-exists and its failure
\* is fatal: once GetTalks has failed the operation has returned an error
\* whose outermost message names the slug, GetTalks was its last call, no
\* search-gateway call was made and the indexes are as they were; and no
\* search-gateway call of a ReindexConference comes before a successful
\* GetTalks.
C32_ConferenceFetchFailureIsFatal ==
    /\ ConferenceFetchFailed =>
          /\ P1.pc = "returned" /\ ~P1.ok
          /\ P1.err[1] = E("failed to fetch talks for conference", P1.arg)
          /\ P1.arg \in Slugs
          /\ LastCall.fn = "GetTalks"
          /\ \A k \in 1..Len(P1.calls) : ~IsSearchCall(P1.calls[k])
          /\ idx = P1.pre
    /\ P1.op = "ReindexConference" =>
          \A k \in 1..Len(P1.calls) :
              IsSearchCall(P1.calls[k]) =>
                  \E j \in 1..(k - 1) : P1.calls[j].fn = "GetTalks" /\ P1.calls[j].ok

\* C32 witness: a ReindexConference of a known slug returned an error after
\* its GetTalks failed, with both indexes absent before and after.
C32_Witness ==
    /\ ConferenceFetchFailed /\ P1.pc = "returned" /\ ~P1.ok
    /\ P1.arg = "javazone2025"
    /\ Len(P1.calls) = 2
    /\ \A n \in IndexNames : ~idx[n].exists

IsEnsureCall(c) == c.fn \in {"IndexExists", "CreateIndex"}

\* an IndexExists or CreateIndex of the scoped operation on p1 has failed
EnsureFailed ==
    /\ P1.op \in ScopedOps
    /\ \E k \in 1..Len(P1.calls) : IsEnsureCall(P1.calls[k]) /\ ~P1.calls[k].ok

\* C33: a failure of IndexExists or CreateIndex during ensure-exists is
\* fatal for ReindexConference and ReindexTalk: the failed call is the
\* operation's last gateway call, the operation has returned an error, no
\* BulkIndex was made to either index, no document changed, and an index the
\* same operation created before the failure still exists with its mapping.
C33_EnsureFailureIsFatal ==
    EnsureFailed =>
        /\ P1.pc = "returned" /\ ~P1.ok
        /\ IsEnsureCall(LastCall) /\ ~LastCall.ok
        /\ \A k \in 1..(Len(P1.calls) - 1) : P1.calls[k].ok
        /\ BulkCalls = <<>>
        /\ \A n \in IndexNames : idx[n].docs = P1.pre[n].docs
        /\ \A k \in 1..Len(P1.calls) :
              (P1.calls[k].fn = "CreateIndex" /\ P1.calls[k].ok) =>
                  /\ idx[P1.calls[k].arg].exists
                  /\ idx[P1.calls[k].arg].mapping = getMappingForIndex(P1.calls[k].arg)
                  /\ ~P1.pre[P1.calls[k].arg].exists

\* C33 witness: a ReindexTalk created the private index, then failed to
\* create the public one and returned an error; the private index is left
\* in place, empty, and the public one is absent.
C33_Witness ==
    /\ EnsureFailed /\ P1.op = "ReindexTalk" /\ P1.pc = "returned" /\ ~P1.ok
    /\ LastCall.fn = "CreateIndex" /\ LastCall.arg = PublicIndex
    /\ ~P1.pre[PrivateIndex].exists
    /\ idx[PrivateIndex] = FreshIndex(PrivateIndex)
    /\ ~idx[PublicIndex].exists

IsLifecycleCall(c) == c.fn \in {"DeleteIndex", "CreateIndex", "IndexExists"}

\* C34: every error returned for an index-lifecycle failure (delete, create,
\* exists-check) carries, somewhere in its chain, the configured name of the
\* index the failed call was made for.
C34_LifecycleErrorsCarryIndexName ==
    (P1.pc = "returned" /\ ~P1.ok /\ P1.calls # <<>> /\ IsLifecycleCall(LastCall) /\ ~LastCall.ok) =>
        /\ LastCall.arg \in IndexNames
        /\ \E k \in 1..Len(P1.err) : P1.err[k].arg = LastCall.arg

\* ---------------------------------------------------------------------------
\* The web handler's conference cache (Handler.getConferences): one RWMutex,
\* one stored list, any number of callers.
\* ---------------------------------------------------------------------------

MaxCalls == 3

CacheFrame ==
    UNCHANGED <<confList, source, idx, ps, opsStarted, changes, covered, pubWrites, prev,
                responses, pure, server, auth>>

\* a call returns: its result is recorded
Return(k, c, ok, list) ==
    [k EXCEPT !.pc[c] = "returned", !.result[c] = [ok |-> ok, list |-> list]]

\* a request handler calls getConferences
getConferences_Call(c) ==
    /\ cache.pc[c] \in {"idle", "returned"}
    /\ cache.calls < MaxCalls
    /\ cache' = [cache EXCEPT !.pc[c] = "RLock", !.calls = @ + 1]
    /\ CacheFrame

\* h.confMu.RLock(): granted while no writer holds the mutex
getConferences_RLock(c) ==
    /\ cache.pc[c] = "RLock"
    /\ cache.writer = ""
    /\ cache' = [cache EXCEPT !.pc[c] = "rlocked", !.readers = @ \cup {c}]
    /\ CacheFrame

\* under the read lock: a stored list is returned, otherwise the read lock is
\* released and the write lock asked for
getConferences_Check(c) ==
    /\ cache.pc[c] = "rlocked"
    /\ cache' = IF ~cache.conferences.isNil
                THEN Return([cache EXCEPT !.readers = @ \ {c}], c, TRUE, cache.conferences)
                ELSE [cache EXCEPT !.readers = @ \ {c}, !.pc[c] = "Lock"]
    /\ CacheFrame

\* h.confMu.Lock(): granted while nobody holds the mutex
getConferences_Lock(c) ==
    /\ cache.pc[c] = "Lock"
    /\ cache.writer = "" /\ cache.readers = {}
    /\ cache' = [cache EXCEPT !.pc[c] = "locked", !.writer = c]
    /\ CacheFrame

\* faulty variant: no second look at the stored list under the write lock
getConferences_DoubleCheck_Skip(c) ==
    /\ cache.pc[c] = "locked"
    /\ cache' = [cache EXCEPT !.pc[c] = "fetching", !.fetches = @ + 1]
    /\ CacheFrame

\* under the write lock: the stored list is looked at again; only if it is
\* still nil the provider is called
getConferences_DoubleCheck(c) ==
    /\ cache.pc[c] = "locked"
    /\ cache' = IF ~cache.conferences.isNil
                THEN Return([cache EXCEPT !.writer = ""], c, TRUE, cache.conferences)
                ELSE [cache EXCEPT !.pc[c] = "fetching", !.fetches = @ + 1]
    /\ CacheFrame

\* what the provider's GetConferences may answer: an error, the source's
\* current list, or (the interface allows it) a nil list without an error
ProviderAnswers ==
    {[ok |-> FALSE, list |-> NilSlice],
     [ok |-> TRUE, list |-> [isNil |-> FALSE, elems |-> confList]],
     [ok |-> TRUE, list |-> NilSlice]}

\* faulty variant: after a failed fetch an empty list is stored
getConferences_Fetched_StoreOnError(c) ==
    /\ cache.pc[c] = "fetching"
    /\ \E a \in ProviderAnswers :
        cache' = Return([cache EXCEPT !.writer = "",
                                      !.conferences = IF a.ok THEN a.list ELSE MakeSlice,
                                      !.failures = IF a.ok THEN @ ELSE @ + 1,
                                      !.provided = IF a.ok THEN @ \cup {a.list} ELSE @],
                        c, a.ok, a.list)
    /\ CacheFrame

\* the provider has answered: an error is returned and nothing is stored, a
\* list is stored and returned; the write lock is released
getConferences_Fetched(c) ==
    /\ cache.pc[c] = "fetching"
    /\ \E a \in ProviderAnswers :
        cache' = Return([cache EXCEPT !.writer = "",
                                      !.conferences = IF a.ok THEN a.list ELSE @,
                                      !.failures = IF a.ok THEN @ ELSE @ + 1,
                                      !.provided = IF a.ok THEN @ \cup {a.list} ELSE @],
                        c, a.ok, a.list)
    /\ CacheFrame

\* the source's conference list changes
UpstreamConferencesChange ==
    /\ changes < MaxChanges
    /\ \E l \in ConfLists \ {confList} : confList' = l
    /\ changes' = changes + 1
    /\ UNCHANGED <<source, idx, ps, opsStarted, covered, pubWrites, prev, responses, pure,
                   server, cache, auth>>

getConferences(c) ==
    \/ getConferences_Call(c)
    \/ getConferences_RLock(c)
    \/ getConferences_Check(c)
    \/ getConferences_Lock(c)
    \/ getConferences_DoubleCheck(c)
    \/ getConferences_Fetched(c)

InitCache ==
    /\ confList \in ConfLists
    /\ source = [t \in TalkIds |-> [status |-> "SUBMITTED", privateData |-> InitialPrivateData(t)]]
    /\ idx = [n \in IndexNames |-> NoIndex]
    /\ ps = [p \in Procs |-> IdleProc]
    /\ opsStarted = 0
    /\ changes = 0
    /\ covered = [t \in TalkIds |-> ""]
    /\ pubWrites = {}
    /\ prev = Summary(IdleProc)
    /\ responses = {}
    /\ pure = PureIdle
    /\ server = ServerIdle
    /\ cache = CacheIdle
    /\ auth = AuthIdle

NextCache == getConferences("h1") \/ getConferences("h2") \/ UpstreamConferencesChange

SpecCache == InitCache /\ [][NextCache]_vars

\* the callers whose provider call is in progress
InFlight == {c \in Callers : cache.pc[c] = "fetching"}

\* caller c returns in this step
Returns(c) == cache.pc[c] # "returned" /\ cache'.pc[c] = "returned"

\* C35: no two provider calls overlap; at most one provider call ever yields
\* a non-nil list; once a non-nil list is stored it is never replaced and the
\* provider is never called again; and every call that returns from then on
\* returns the stored list.
C35_CacheFetchesOnce ==
    /\ [](Cardinality(InFlight) <= 1)
    /\ [](~cache.conferences.isNil => InFlight = {})
    /\ [](Cardinality(cache.provided \ {NilSlice}) <= 1)
    /\ [][~cache.conferences.isNil =>
            /\ cache'.conferences = cache.conferences
            /\ cache'.fetches = cache.fetches
            /\ \A c \in Callers :
                  Returns(c) => cache'.result[c] = [ok |-> TRUE, list |-> cache.conferences]]_vars

\* C35 witness: three calls by two callers, one provider call; both callers
\* hold the stored list although the source's list has changed since.
C35_Witness ==
    /\ cache.calls = 3 /\ cache.fetches = 1
    /\ ~cache.conferences.isNil
    /\ cache.conferences.elems # confList
    /\ \A c \in Callers :
          cache.pc[c] = "returned" /\ cache.result[c] = [ok |-> TRUE, list |-> cache.conferences]

\* C36: a failed fetch is not cached: when the provider answers with an
\* error the call returns an error and the stored list stays nil; whatever is
\* stored was answered by the provider without an error; and while nothing is
\* stored every call that gets the write lock calls the provider.
C36_FailedFetchNotCached ==
    /\ [](~cache.conferences.isNil => cache.conferences \in cache.provided)
    /\ [](cache.provided \subseteq {NilSlice} => cache.conferences.isNil)
    /\ [][\A c \in Callers :
            /\ (cache.pc[c] = "fetching" /\ Returns(c) /\ cache'.failures > cache.failures) =>
                  /\ ~cache'.result[c].ok
                  /\ cache'.conferences = cache.conferences
                  /\ cache'.conferences.isNil
            /\ (cache.pc[c] = "locked" /\ cache'.pc[c] # "locked" /\ cache.conferences.isNil) =>
                  /\ cache'.pc[c] = "fetching"
                  /\ cache'.fetches = cache.fetches + 1]_vars

\* C36 witness: the first provider call failed and its caller got the error;
\* the next call asked the provider again and stored its list.
C36_Witness ==
    /\ cache.failures = 1 /\ cache.fetches = 2
    /\ ~cache.result["h1"].ok /\ cache.pc["h1"] = "returned"
    /\ cache.result["h2"].ok /\ cache.pc["h2"] = "returned"
    /\ ~cache.conferences.isNil /\ cache.conferences = cache.result["h2"].list

\* ---------------------------------------------------------------------------
\* Authentication: the in-memory session store, the clock, login and logout,
\* and requests passing Middleware.RequireAuth.
\* ---------------------------------------------------------------------------

MaxSessions == 2
MaxTime == 2
SessionTTL == 1

\* an id the store never issues: generateSessionID draws 32 random bytes, so a
\* value made up by a client does not meet an id issued before or after
UnknownId == MaxSessions + 1

\* the cookie values a request may carry: 0 for no session cookie, the id of a
\* session issued so far, or an id unknown to the store
Cookies == {0, UnknownId} \cup {s.id : s \in auth.issued}

AuthFrame ==
    UNCHANGED <<confList, source, idx, ps, opsStarted, changes, covered, pubWrites, prev,
                responses, pure, server, cache>>

\* InMemoryStore.Delete
store_Delete(sessions, id) == {s \in sessions : s.id # id}

\* HandleCallback after a successful exchange: store.Create issues a session
\* under a fresh random id, valid for the session TTL
HandleCallback ==
    /\ Cardinality(auth.issued) < MaxSessions
    /\ LET sess == [id |-> Cardinality(auth.issued) + 1, expiresAt |-> auth.now + SessionTTL] IN
        auth' = [auth EXCEPT !.sessions = @ \cup {sess}, !.issued = @ \cup {sess}]
    /\ AuthFrame

\* time passes
Tick ==
    /\ auth.now < MaxTime
    /\ auth' = [auth EXCEPT !.now = @ + 1]
    /\ AuthFrame

\* faulty variant: logout clears the cookie and leaves the store alone
HandleLogout_CookieOnly(cookie) ==
    /\ cookie # 0
    /\ auth' = [auth EXCEPT !.loggedOut = @ \cup {cookie}]
    /\ AuthFrame

\* HandleLogout for a request carrying a session cookie: the session of that
\* id is deleted from the store (a logout without a cookie, or with an id the
\* store never issued, deletes nothing and is not a step of the model)
HandleLogout(cookie) ==
    /\ cookie # 0
    /\ auth' = [auth EXCEPT !.sessions = store_Delete(@, cookie),
                            !.loggedOut = @ \cup {cookie}]
    /\ AuthFrame

\* RequireAuth, first lines: without a session cookie the request goes to the
\* login; with one the store is asked
RequireAuth_Cookie(r) ==
    /\ auth.req[r].pc \in {"idle", "done"}
    /\ \E cookie \in Cookies :
        auth' = [auth EXCEPT !.req[r] =
                    [NoReq EXCEPT !.cookie = cookie, !.wasRevoked = cookie \in auth.loggedOut,
                                  !.pc = IF cookie = 0 THEN "respond" ELSE "Get"]]
    /\ AuthFrame

\* the expiry time a session was created with (sessions are never modified)
ExpiresAt(id) == (CHOOSE s \in auth.issued : s.id = id).expiresAt

\* InMemoryStore.Get, under the read lock: the map lookup
store_Get_Lookup(r) ==
    /\ auth.req[r].pc = "Get"
    /\ LET id == auth.req[r].cookie
           exists == \E s \in auth.sessions : s.id = id
       IN auth' = [auth EXCEPT !.req[r] =
                    [@ EXCEPT !.sess = IF exists THEN id ELSE 0,
                              !.wasPresent = /\ \E s \in auth.issued : s.id = id
                                             /\ id \notin auth.loggedOut \cup auth.expired,
                              !.pc = "expiry"]]
    /\ AuthFrame

\* faulty variant: the expiry of the session is not looked at
store_Get_Expiry_Ignored(r) ==
    /\ auth.req[r].pc = "expiry"
    /\ auth' = [auth EXCEPT !.req[r] =
                    [@ EXCEPT !.wasFresh = \E s \in auth.issued :
                                                s.id = auth.req[r].cookie /\ auth.now <= s.expiresAt,
                              !.pc = "respond"]]
    /\ AuthFrame

\* InMemoryStore.Get, after the read lock: not found is nil; an expired
\* session is deleted from the store and nil is returned
store_Get_Expiry(r) ==
    /\ auth.req[r].pc = "expiry"
    /\ LET q == auth.req[r]
           isExpired == q.sess # 0 /\ auth.now > ExpiresAt(q.sess)
       IN auth' = [auth EXCEPT
                    !.sessions = IF isExpired THEN store_Delete(@, q.sess) ELSE @,
                    !.expired = IF isExpired THEN @ \cup {q.sess} ELSE @,
                    !.req[r] = [@ EXCEPT !.sess = IF isExpired THEN 0 ELSE @,
                                         !.wasFresh = \E s \in auth.issued :
                                                         s.id = q.cookie /\ auth.now <= s.expiresAt,
                                         !.pc = "respond"]]
    /\ AuthFrame

\* RequireAuth, last lines: with a session the wrapped handler is called;
\* without one redirectToLogin answers 302, or 500 when no state can be
\* generated
RequireAuth_Respond(r) ==
    /\ auth.req[r].pc = "respond"
    /\ \E code \in (IF auth.req[r].sess # 0 THEN {"200"} ELSE {"302", "500"}) :
        auth' = [auth EXCEPT !.req[r] =
                    [@ EXCEPT !.code = code, !.invoked = (auth.req[r].sess # 0), !.pc = "done"]]
    /\ AuthFrame

Middleware_RequireAuth(r) ==
    \/ RequireAuth_Cookie(r)
    \/ store_Get_Lookup(r)
    \/ store_Get_Expiry(r)
    \/ RequireAuth_Respond(r)

InitAuth ==
    /\ confList = <<>>
    /\ source = [t \in TalkIds |-> [status |-> "SUBMITTED", privateData |-> InitialPrivateData(t)]]
    /\ idx = [n \in IndexNames |-> NoIndex]
    /\ ps = [p \in Procs |-> IdleProc]
    /\ opsStarted = 0
    /\ changes = 0
    /\ covered = [t \in TalkIds |-> ""]
    /\ pubWrites = {}
    /\ prev = Summary(IdleProc)
    /\ responses = {}
    /\ pure = PureIdle
    /\ server = ServerIdle
    /\ cache = CacheIdle
    /\ auth = AuthIdle

NextAuth ==
    \/ HandleCallback
    \/ Tick
    \/ \E cookie \in Cookies \ {0, UnknownId} : HandleLogout(cookie)
    \/ \E r \in Slots : Middleware_RequireAuth(r)

SpecAuth == InitAuth /\ [][NextAuth]_vars

\* the request presented the id of a session that was in the store when it was
\* looked up and had not expired when its expiry was examined
NamedLiveSession(q) == q.cookie # 0 /\ q.wasPresent /\ q.wasFresh

\* a session looked up after its expiry is gone from the store once Get returns
ExpiredRemovedOnLookup ==
    \A r \in Slots :
        LET q == auth.req[r] IN
        (q.pc \in {"respond", "done"} /\ q.cookie # 0 /\ q.wasPresent /\ ~q.wasFresh)
            => /\ q.sess = 0
               /\ ~\E s \in auth.sessions : s.id = q.cookie

\* C37 as stated: the wrapped handler is invoked only for a request whose
\* cookie names a session present in the store and not expired; every other
\* request (no cookie, unknown id, expired session) is answered with the
\* redirect to the login URL and the handler is not invoked; an expired session
\* is removed from the store when it is looked up.
C37_RequireAuthGuardsHandler ==
    /\ \A r \in Slots :
        LET q == auth.req[r] IN
        q.pc = "done" =>
            /\ q.invoked => NamedLiveSession(q)
            /\ ~NamedLiveSession(q) => (~q.invoked /\ q.code = "302")
    /\ ExpiredRemovedOnLookup

\* C37, amended: the wrapped handler is invoked only for a request whose cookie
\* names a session present in the store and not expired; every other request
\* is answered without the handler being invoked, by the redirect to the login
\* URL or, when no OAuth state can be generated, by status 500; an expired
\* session is removed from the store when it is looked up.
C37_Amended_RequireAuthGuardsHandler ==
    /\ \A r \in Slots :
        LET q == auth.req[r] IN
        q.pc = "done" =>
            /\ q.invoked => NamedLiveSession(q)
            /\ ~NamedLiveSession(q) => (~q.invoked /\ q.code \in {"302", "500"})
    /\ ExpiredRemovedOnLookup

\* one request was served by the handler on a live session while another,
\* presenting a session that had expired, was redirected and its session
\* removed by the lookup
C37_Witness ==
    \E r1, r2 \in Slots :
        /\ auth.req[r1].pc = "done" /\ auth.req[r1].invoked
        /\ LET q == auth.req[r2] IN
            /\ q.pc = "done" /\ q.cookie # 0 /\ q.wasPresent /\ ~q.wasFresh
            /\ ~q.invoked /\ q.code = "302"
            /\ q.cookie \in auth.expired
            /\ ~\E s \in auth.sessions : s.id = q.cookie

\* the request entered RequireAuth presenting a session id that HandleLogout
\* had processed before
PresentsLoggedOutId(q) == q.cookie # 0 /\ q.wasRevoked

\* C38 as stated: after HandleLogout has processed a request carrying a session
\* cookie, every later request presenting that session id to RequireAuth is
\* redirected to the login and the protected handler is not invoked, whether
\* or not a new login has created another session since.
C38_LogoutRevokesSession ==
    \A r \in Slots :
        LET q == auth.req[r] IN
        /\ (q.pc \in {"expiry", "respond", "done"} /\ PresentsLoggedOutId(q)) => q.sess = 0
        /\ (q.pc = "done" /\ PresentsLoggedOutId(q)) => (~q.invoked /\ q.code = "302")

\* C38, amended: after HandleLogout has processed a request carrying a session
\* cookie, the store holds no session of that id, and every later request
\* presenting the id to RequireAuth is answered without the protected handler
\* being invoked, by the redirect to the login or, when no OAuth state can be
\* generated, by status 500; a new login creates a session under another id.
C38_Amended_LogoutRevokesSession ==
    /\ \A id \in auth.loggedOut : ~\E s \in auth.sessions : s.id = id
    /\ \A r \in Slots :
        LET q == auth.req[r] IN
        /\ (q.pc \in {"expiry", "respond", "done"} /\ PresentsLoggedOutId(q)) => q.sess = 0
        /\ (q.pc = "done" /\ PresentsLoggedOutId(q)) =>
                (~q.invoked /\ q.code \in {"302", "500"})

\* a request presenting a logged-out id of a session that had been issued was
\* redirected, while the session of a newer login was accepted
C38_Witness ==
    \E r1, r2 \in Slots :
        LET q == auth.req[r1] IN
        /\ q.pc = "done" /\ q.wasRevoked /\ ~q.invoked /\ q.code = "302"
        /\ \E s \in auth.issued : s.id = q.cookie /\ auth.now <= s.expiresAt
        /\ auth.req[r2].pc = "done" /\ auth.req[r2].invoked
        /\ auth.req[r2].cookie > q.cookie

====
